---------------------------- MODULE Spec2Model ----------------------------
(***************************************************************************)
(* A model of Ini-cpp (include/settings.h): the Settings<IniFullPath>      *)
(* store, its INI codec (ReadIni / WriteIni), the helpers Trim, Split and  *)
(* ConvertValue, and the environment the store runs in (the backing file,  *)
(* its modification time, the clock, other writers of the file).           *)
(*                                                                         *)
(* Strings are sequences of one-character strings: "a.b" is <<"a",".","b">>*)
(***************************************************************************)
EXTENDS Integers, Sequences, FiniteSets, TLC

(***************************************************************************)
(* Characters.  CharOrder lists the characters the model uses in ASCII     *)
(* order; std::map<std::string, ...> orders its keys by it.                *)
(***************************************************************************)
CharOrder ==
  << "\t", "\n", "\r", " ", "#", "%", "-", ".", "0", "1", "2", "3", ";", "=",
     "[", "]", "a", "b", "d", "e", "k", "m", "r", "s", "t", "u", "v", "w", "x" >>

Ord(c) == CHOOSE i \in 1..Len(CharOrder) : CharOrder[i] = c

\* std::isspace in the "C" locale
IsSpace(c) == c \in {" ", "\t", "\n", "\r", "\f"}

IsDigit(c) == c \in {"0", "1", "2", "3", "4", "5", "6", "7", "8", "9"}

DigitVal(c) ==
  CASE c = "0" -> 0 [] c = "1" -> 1 [] c = "2" -> 2 [] c = "3" -> 3
    [] c = "4" -> 4 [] c = "5" -> 5 [] c = "6" -> 6 [] c = "7" -> 7
    [] c = "8" -> 8 [] c = "9" -> 9

DigitChar(n) == << "0", "1", "2", "3", "4", "5", "6", "7", "8", "9" >>[n + 1]

\* std::string::operator< : lexicographic, a proper prefix is smaller
StrLess(a, b) ==
  \E i \in 1..Len(b) :
    /\ \A j \in 1..(i - 1) : j <= Len(a) /\ a[j] = b[j]
    /\ \/ i = Len(a) + 1
       \/ i <= Len(a) /\ Ord(a[i]) < Ord(b[i])

\* the keys of a std::map in iteration order
RECURSIVE SortedKeys(_)
SortedKeys(S) ==
  IF S = {} THEN << >>
  ELSE LET lo == CHOOSE k \in S : \A o \in S \ {k} : StrLess(k, o)
       IN  << lo >> \o SortedKeys(S \ {lo})

\* s.substr(from) and s.substr(from, n), positions counted from 1
Drop(s, n) == SubSeq(s, n + 1, Len(s))
Take(s, n) == SubSeq(s, 1, n)

\* position of the first character of s at or after `from` satisfying the
\* set `cs`; 0 stands for std::string::npos
FindFirstOf(s, cs, from) ==
  LET hits == { i \in from..Len(s) : s[i] \in cs }
  IN  IF hits = {} THEN 0 ELSE CHOOSE i \in hits : \A j \in hits : i <= j

(***************************************************************************)
(* Trim (settings.h:71-92)                                                 *)
(***************************************************************************)
\* 75-77: `first` runs over the leading white space; Len(s) + 1 stands for end
RECURSIVE TrimFirst(_, _)
TrimFirst(s, first) ==
  IF first # Len(s) + 1 /\ IsSpace(s[first]) THEN TrimFirst(s, first + 1)
  ELSE first

\* 84-86: do { --last; } while (std::isspace(*last, loc));
RECURSIVE TrimLast(_, _)
TrimLast(s, last) ==
  IF IsSpace(s[last - 1]) THEN TrimLast(s, last - 1) ELSE last - 1

\* a Trim that strips the leading white space only
TrimLeading(s) == SubSeq(s, TrimFirst(s, 1), Len(s))

Trim(s) ==
  LET first == TrimFirst(s, 1)
      end   == Len(s) + 1
      last  == TrimLast(s, end)
  IN  IF first = end THEN << >>
      ELSE IF first # 1 \/ last + 1 # end THEN SubSeq(s, first, last)
      ELSE s

(***************************************************************************)
(* Split (settings.h:101-120).  `pattern` is used as a set of delimiter    *)
(* characters (find_first_of).                                             *)
(***************************************************************************)
\* the loop without the test `index != start` (108): an empty piece is
\* pushed for a leading or repeated delimiter
RECURSIVE SplitFromKeepsEmpty(_, _, _)
SplitFromKeepsEmpty(str, delims, start) ==
  LET index == FindFirstOf(str, delims, start)
  IN  IF index # 0
      THEN << SubSeq(str, start, index - 1) >> \o SplitFromKeepsEmpty(str, delims, index + 1)
      ELSE IF SubSeq(str, start, Len(str)) # << >>
           THEN << SubSeq(str, start, Len(str)) >>
           ELSE << >>

RECURSIVE SplitFrom(_, _, _)
SplitFrom(str, delims, start) ==
  LET index == FindFirstOf(str, delims, start)
  IN  IF index # 0
      THEN (IF index # start THEN << SubSeq(str, start, index - 1) >> ELSE << >>)
           \o SplitFrom(str, delims, index + 1)
      ELSE IF SubSeq(str, start, Len(str)) # << >>
           THEN << SubSeq(str, start, Len(str)) >>
           ELSE << >>

Split(str, pattern) ==
  IF str = << >> THEN << >>
  ELSE SplitFrom(str, { pattern[i] : i \in 1..Len(pattern) }, 1)

\* the pieces joined back with "."
RECURSIVE JoinDot(_)
JoinDot(v) ==
  IF v = << >> THEN << >>
  ELSE IF Len(v) = 1 THEN v[1]
  ELSE v[1] \o << "." >> \o JoinDot(Tail(v))

(***************************************************************************)
(* Typed values.  A value of a supported type is a record: t is the type   *)
(* ("string", "int" or "bool") and s, n or b holds the string, the integer *)
(* or the boolean; the two other fields are padding.                       *)
(***************************************************************************)
Str(s)  == [t |-> "string", s |-> s, n |-> 0, b |-> FALSE]
Int_(n) == [t |-> "int", s |-> << >>, n |-> n, b |-> FALSE]
Bool(b) == [t |-> "bool", s |-> << >>, n |-> 0, b |-> b]

RECURSIVE NatToString(_)
NatToString(n) ==
  IF n < 10 THEN << DigitChar(n) >>
  ELSE NatToString(n \div 10) \o << DigitChar(n % 10) >>

\* std::to_string(int): "%d"
IntToString(n) == IF n < 0 THEN << "-" >> \o NatToString(0 - n) ELSE NatToString(n)

\* SetValue's value_string (settings.h:347-353): a string passes through,
\* every other type goes through std::to_string; a bool is promoted to int
ToValueString(val) ==
  CASE val.t = "string" -> val.s
    [] val.t = "int"    -> IntToString(val.n)
    [] val.t = "bool"   -> IntToString(IF val.b THEN 1 ELSE 0)

RECURSIVE DigitsValue(_, _)
DigitsValue(s, acc) ==
  IF s = << >> \/ ~IsDigit(Head(s)) THEN acc
  ELSE DigitsValue(Tail(s), acc * 10 + DigitVal(Head(s)))

\* std::stoi(value, &sz): leading white space is skipped, then an optional
\* sign, then the longest run of digits; no digit at all throws
\* std::invalid_argument.  [ok |-> FALSE] stands for the throw.
Stoi(value) ==
  LET nonsp == { i \in 1..Len(value) : ~IsSpace(value[i]) }
      body  == IF nonsp = {} THEN << >>
               ELSE Drop(value, (CHOOSE i \in nonsp : \A j \in nonsp : i <= j) - 1)
      neg   == body # << >> /\ Head(body) = "-"
      dig   == IF body # << >> /\ Head(body) \in {"-", "+"} THEN Tail(body) ELSE body
  IN  IF dig = << >> \/ ~IsDigit(Head(dig))
      THEN [ok |-> FALSE, v |-> 0]
      ELSE [ok |-> TRUE,
            v  |-> IF neg THEN 0 - DigitsValue(dig, 0) ELSE DigitsValue(dig, 0)]

\* ConvertValue without the test of value.empty() (50-52)
ConvertValueNoEmptyTest(value, default_value) ==
  CASE default_value.t = "string" -> [ok |-> TRUE, val |-> Str(value)]
    [] default_value.t = "int" ->
         [ok |-> Stoi(value).ok, val |-> Int_(Stoi(value).v)]
    [] default_value.t = "bool" ->
         [ok |-> TRUE,
          val |-> Bool(value = << "t", "r", "u", "e" >> \/ value = << "1" >>)]

\* ConvertValue taking only "true" for true
ConvertValueTrueOnly(value, default_value) ==
  IF value = << >> THEN [ok |-> TRUE, val |-> default_value]
  ELSE CASE default_value.t = "string" -> [ok |-> TRUE, val |-> Str(value)]
         [] default_value.t = "int" ->
              [ok |-> Stoi(value).ok, val |-> Int_(Stoi(value).v)]
         [] default_value.t = "bool" ->
              [ok |-> TRUE, val |-> Bool(value = << "t", "r", "u", "e" >>)]

(***************************************************************************)
(* ConvertValue (settings.h:48-68).  The result is [ok, val]: ok = FALSE   *)
(* stands for the exception std::stoi lets escape.                         *)
(***************************************************************************)
ConvertValue(value, default_value) ==
  IF value = << >> THEN [ok |-> TRUE, val |-> default_value]
  ELSE CASE default_value.t = "string" -> [ok |-> TRUE, val |-> Str(value)]
         [] default_value.t = "int" ->
              [ok |-> Stoi(value).ok, val |-> Int_(Stoi(value).v)]
         [] default_value.t = "bool" ->
              [ok |-> TRUE,
               val |-> Bool(value = << "t", "r", "u", "e" >> \/ value = << "1" >>)]

(***************************************************************************)
(* The table: std::map<std::string, std::string>, a function from the keys *)
(* present to their values.                                                *)
(***************************************************************************)
EmptyTbl == [k \in {} |-> << >>]

\* std::map::insert_or_assign
InsertOrAssign(tbl, key, value) ==
  [k \in (DOMAIN tbl) \cup {key} |-> IF k = key THEN value ELSE tbl[k]]

(***************************************************************************)
(* WriteIni (settings.h:370-403).  The loop over the table in key order;   *)
(* `secs` is sec_name_set.  An empty value is skipped (continue); a key    *)
(* with fewer than two segments ends the loop (break).                     *)
(***************************************************************************)
RECURSIVE WriteIniLoop(_, _, _)
WriteIniLoop(keys, tbl, secs) ==
  IF keys = << >> THEN << >>
  ELSE LET combined_key     == Head(keys)
           value            == tbl[combined_key]
           combined_key_vec == Split(combined_key, << "." >>)
           section_name     == combined_key_vec[1]
           header ==
             IF section_name \in secs THEN << >>
             ELSE (IF secs = {} THEN << >> ELSE << "\n" >>)
                  \o << "[" >> \o section_name \o << "]", "\n" >>
           key == JoinDot(Tail(combined_key_vec))
       IN  IF value = << >> THEN WriteIniLoop(Tail(keys), tbl, secs)
           ELSE IF Len(combined_key_vec) < 2 THEN << >>
           ELSE header \o key \o << "=" >> \o value \o << "\n" >>
                \o WriteIniLoop(Tail(keys), tbl, secs \cup {section_name})

WriteIni(ini_content_tbl) ==
  WriteIniLoop(SortedKeys(DOMAIN ini_content_tbl), ini_content_tbl, {})

(***************************************************************************)
(* ReadIni (settings.h:412-477).                                           *)
(***************************************************************************)
\* The lines std::getline hands to the loop body: a line counts only when
\* the stream is still good() and not eof() after the read (settings.h:429),
\* that is when a newline ended it; the text after the last newline is read
\* with eofbit set and dropped.
RECURSIVE GetLines(_)
GetLines(text) ==
  LET nl == FindFirstOf(text, {"\n"}, 1)
  IN  IF nl = 0 THEN << >>
      ELSE << Take(text, nl - 1) >> \o GetLines(Drop(text, nl))

\* the loop body cutting a value at its first `#` or `;`
ReadIniLineStripsComments(st, raw) ==
  LET line == Trim(raw)
  IN  IF line = << >> THEN st
      ELSE IF line[1] = ";" \/ line[1] = "#" THEN st
      ELSE IF line[1] = "["
      THEN LET end == FindFirstOf(line, {"]"}, 1)
           IN  IF end = 0 THEN st
               ELSE [st EXCEPT !.section = Trim(SubSeq(line, 2, end - 1))]
      ELSE IF st.section = << >> THEN st
      ELSE LET eq_pos == FindFirstOf(line, {"="}, 1)
           IN  IF eq_pos = 0 THEN st
               ELSE IF eq_pos = 1 THEN st
               ELSE LET key  == Trim(Take(line, eq_pos - 1))
                        rest == Drop(line, eq_pos)
                        mark == FindFirstOf(rest, {"#", ";"}, 1)
                        data == Trim(IF mark = 0 THEN rest ELSE Take(rest, mark - 1))
                        combined_key == st.section \o << "." >> \o key
                    IN  [st EXCEPT !.tbl = InsertOrAssign(@, combined_key, data)]

\* the loop body taking comment lines for key lines
ReadIniLineKeepsComments(st, raw) ==
  LET line == Trim(raw)
  IN  IF line = << >> THEN st
      ELSE IF line[1] = "["
      THEN LET end == FindFirstOf(line, {"]"}, 1)
           IN  IF end = 0 THEN st
               ELSE [st EXCEPT !.section = Trim(SubSeq(line, 2, end - 1))]
      ELSE IF st.section = << >> THEN st
      ELSE LET eq_pos == FindFirstOf(line, {"="}, 1)
           IN  IF eq_pos = 0 THEN st
               ELSE IF eq_pos = 1 THEN st
               ELSE LET key  == Trim(Take(line, eq_pos - 1))
                        data == Trim(Drop(line, eq_pos))
                        combined_key == st.section \o << "." >> \o key
                    IN  [st EXCEPT !.tbl = InsertOrAssign(@, combined_key, data)]

\* One pass of the loop body over a line; st = [tbl, section]
ReadIniLine(st, raw) ==
  LET line == Trim(raw)
  IN  IF line = << >> THEN st
      ELSE IF line[1] = ";" \/ line[1] = "#" THEN st
      ELSE IF line[1] = "["
      THEN LET end == FindFirstOf(line, {"]"}, 1)
           IN  IF end = 0 THEN st
               ELSE [st EXCEPT !.section = Trim(SubSeq(line, 2, end - 1))]
      ELSE IF st.section = << >> THEN st
      ELSE LET eq_pos == FindFirstOf(line, {"="}, 1)
           IN  IF eq_pos = 0 THEN st
               ELSE IF eq_pos = 1 THEN st
               ELSE LET key  == Trim(Take(line, eq_pos - 1))
                        data == Trim(Drop(line, eq_pos))
                        combined_key == st.section \o << "." >> \o key
                    IN  [st EXCEPT !.tbl = InsertOrAssign(@, combined_key, data)]

RECURSIVE ReadIniLoop(_, _)
ReadIniLoop(st, lines) ==
  IF lines = << >> THEN st
  ELSE ReadIniLoop(ReadIniLine(st, Head(lines)), Tail(lines))

\* ReadIni(stream, ini_content_tbl): the table after the stream `text` has
\* been read into ini_content_tbl
ReadIni(text, ini_content_tbl) ==
  ReadIniLoop([tbl |-> ini_content_tbl, section |-> << >>], GetLines(text)).tbl

(***************************************************************************)
(* formatString, the lambda of GetValue2 (settings.h:260-268): snprintf    *)
(* with the conversions %d (an int argument), %s (a string argument) and   *)
(* %% ; every other character is copied.                                   *)
(***************************************************************************)
RECURSIVE FormatString(_, _)
FormatString(fmt, args) ==
  IF fmt = << >> THEN << >>
  ELSE IF Head(fmt) = "%" /\ Len(fmt) >= 2
  THEN (CASE fmt[2] = "d" -> IntToString(Head(args).n) \o FormatString(Drop(fmt, 2), Tail(args))
          [] fmt[2] = "s" -> Head(args).s \o FormatString(Drop(fmt, 2), Tail(args))
          [] OTHER        -> << fmt[2] >> \o FormatString(Drop(fmt, 2), args))
  ELSE << Head(fmt) >> \o FormatString(Tail(fmt), args)

(***************************************************************************)
(* The store and its environment.                                          *)
(*   content_tbl_, last_write_time_   the members of Settings (219-221)    *)
(*   file   the backing file IniFullPath: whether it exists, its content   *)
(*          and its modification time                                      *)
(*   now    the clock the file system stamps modifications with            *)
(*   op     the last operation: its name, arguments, result and outcome    *)
(*   ini_rw_mutex_   the mutex (219): "free" or the thread that holds it   *)
(*   thr    the threads of the concurrent specification: where each is in  *)
(*          its call, and the call's arguments, locals and result          *)
(*   shadow the store and file as the calls completed so far leave them    *)
(*          when each runs alone, in the order the calls returned          *)
(*   ins, flag   the statics of GetInstance (131, 133): the pointer to the *)
(*          instance, 0 for nullptr, and the state of the once_flag        *)
(*   heap   the instances allocated so far, each "raw" (allocated, its     *)
(*          constructor's writes not yet visible), "live", "destroyed" or  *)
(*          "deleted_twice"; an instance is known by its index             *)
(*   caller the threads that call GetInstance and DestroyInstance          *)
(*   peer   the store of another instantiation, Settings<B> for a path B    *)
(*          other than IniFullPath: its table, timestamp, file and mutex,   *)
(*          and the threads that call it                                    *)
(***************************************************************************)
VARIABLES content_tbl_, last_write_time_, file, now, op, ini_rw_mutex_, thr, shadow,
          ins, flag, heap, caller, peer

vars == << content_tbl_, last_write_time_, file, now, op, ini_rw_mutex_, thr, shadow,
           ins, flag, heap, caller, peer >>

\* the singleton, and the instantiation for another path
single == << ins, flag, heap, caller, peer >>

\* the variables the sequential specification leaves alone
conc == << ini_rw_mutex_, thr, shadow, single >>

\* the store, and the instantiation for another path
store == << content_tbl_, last_write_time_, file, now, op, ini_rw_mutex_, thr, shadow,
            peer >>

\* the instantiation Settings<IniFullPath> and its environment
home == << content_tbl_, last_write_time_, file, now, op, ini_rw_mutex_, thr, shadow,
           ins, flag, heap, caller >>

\* the clock stops at MaxTime
MaxTime == 2

NoFile == [exists |-> FALSE, content |-> << >>, mtime |-> 0]

\* The store and what it reads and writes, as one record, for the operators
\* below that model the member functions.
Store == [tbl |-> content_tbl_, lwt |-> last_write_time_, file |-> file, now |-> now]

None == [t |-> "none", s |-> << >>, n |-> 0, b |-> FALSE]

\* LoadContentTbl without content_tbl_.clear(): the file is read into the
\* table as it is
LoadContentTblNoClear(s, open_ok) ==
  IF ~open_ok THEN [ok |-> FALSE, s |-> s]
  ELSE [ok |-> TRUE,
        s  |-> [s EXCEPT
                  !.file = IF @.exists THEN @
                           ELSE [exists |-> TRUE, content |-> << >>, mtime |-> s.now],
                  !.tbl  = ReadIni(s.file.content, s.tbl)]]

(***************************************************************************)
(* LoadContentTbl (settings.h:225-237).  open_ok = FALSE is the stream     *)
(* failing to open (permission denied): nothing is touched.                *)
(*   LoadOpen  227-233  the stream is opened in | out | app, which creates *)
(*                      a missing file; the table is cleared               *)
(*   LoadRead  235      ReadIni reads the file into the table              *)
(***************************************************************************)
LoadOpen(s) ==
  [s EXCEPT !.file = IF @.exists THEN @
                     ELSE [exists |-> TRUE, content |-> << >>, mtime |-> s.now],
            !.tbl  = EmptyTbl]

LoadRead(s) == [s EXCEPT !.tbl = ReadIni(s.file.content, @)]

LoadContentTbl(s, open_ok) ==
  IF ~open_ok THEN [ok |-> FALSE, s |-> s]
  ELSE [ok |-> TRUE, s |-> LoadRead(LoadOpen(s))]

(***************************************************************************)
(* StoreContentTbl (settings.h:239-249), in the order the file system sees *)
(* it:                                                                     *)
(*   StoreOpen   241  the ofstream opens the file, truncating it           *)
(*               246  WriteIni fills the stream's buffer                   *)
(*   StoreStat   247  last_write_time_ is read from the file               *)
(*   StoreClose  248  the stream is destroyed on return: the buffer is     *)
(*                    written to the file, which stamps it again if        *)
(*                    anything is written                                  *)
(* The clock may advance by dt between the open and the close.             *)
(***************************************************************************)
StoreOpen(s) ==
  [s EXCEPT !.file = [exists |-> TRUE, content |-> << >>, mtime |-> s.now]]

StoreStat(s) == [s EXCEPT !.lwt = s.file.mtime]

StoreClose(s, buffer) ==
  IF buffer = << >> THEN s
  ELSE [s EXCEPT !.file = [exists |-> TRUE, content |-> buffer, mtime |-> s.now]]

Advance(s, dt) == [s EXCEPT !.now = @ + dt]

StoreContentTbl(s, open_ok, dt) ==
  IF ~open_ok THEN [ok |-> FALSE, s |-> s]
  ELSE [ok |-> TRUE,
        s  |-> StoreClose(Advance(StoreStat(StoreOpen(s)), dt), WriteIni(s.tbl))]

\* the lookup written with content_tbl_[key], which inserts an absent key
LookupInserting(s, key, default_value, reloaded) ==
  LET s1 == IF key \in DOMAIN s.tbl THEN s
            ELSE [s EXCEPT !.tbl = InsertOrAssign(@, key, << >>)]
      c  == ConvertValue(s1.tbl[key], default_value)
  IN  IF c.ok
      THEN [s |-> s1, outcome |-> "ok", result |-> c.val, reloaded |-> reloaded]
      ELSE [s |-> s1, outcome |-> "conversion_error", result |-> None,
            reloaded |-> reloaded]

(***************************************************************************)
(* The lookup that ends GetValue and GetValue2 (settings.h:302-305 and     *)
(* 280-283).  A call ends "ok" (it returns), with "storage_error" (the     *)
(* std::runtime_error the member functions throw) or with                  *)
(* "conversion_error" (the exception of std::stoi).                        *)
(***************************************************************************)
Lookup(s, key, default_value, reloaded) ==
  IF key \notin DOMAIN s.tbl
  THEN [s |-> s, outcome |-> "ok", result |-> default_value, reloaded |-> reloaded]
  ELSE LET c == ConvertValue(s.tbl[key], default_value)
       IN  IF c.ok
           THEN [s |-> s, outcome |-> "ok", result |-> c.val, reloaded |-> reloaded]
           ELSE [s |-> s, outcome |-> "conversion_error", result |-> None,
                 reloaded |-> reloaded]

\* GetValue without the test of std::filesystem::exists (290-292)
GetValueNoExistsTest(s, key, default_value, env) ==
  IF s.lwt # s.file.mtime
  THEN LET l == LoadContentTbl(s, env.load_ok)
       IN  IF ~l.ok
           THEN [s |-> l.s, outcome |-> "storage_error", result |-> None,
                 reloaded |-> FALSE]
           ELSE Lookup([l.s EXCEPT !.lwt = l.s.file.mtime], key, default_value, TRUE)
  ELSE Lookup(s, key, default_value, FALSE)

\* GetValue with the failed open of the reload caught: the default comes back
GetValueSwallowsLoadFailure(s, key, default_value, env) ==
  IF ~s.file.exists
  THEN [s |-> s, outcome |-> "ok", result |-> default_value, reloaded |-> FALSE]
  ELSE IF s.lwt # s.file.mtime
  THEN LET l == LoadContentTbl(s, env.load_ok)
       IN  IF ~l.ok
           THEN [s |-> l.s, outcome |-> "ok", result |-> default_value,
                 reloaded |-> FALSE]
           ELSE Lookup([l.s EXCEPT !.lwt = l.s.file.mtime], key, default_value, TRUE)
  ELSE Lookup(s, key, default_value, FALSE)

(***************************************************************************)
(* GetValue (settings.h:286-306), the body under the lock.  env.load_ok    *)
(* says whether the file can be opened.                                    *)
(***************************************************************************)
GetValue(s, key, default_value, env) ==
  IF ~s.file.exists
  THEN [s |-> s, outcome |-> "ok", result |-> default_value, reloaded |-> FALSE]
  ELSE IF s.lwt # s.file.mtime
  THEN LET l == LoadContentTbl(s, env.load_ok)
       IN  IF ~l.ok
           THEN [s |-> l.s, outcome |-> "storage_error", result |-> None, reloaded |-> FALSE]
           ELSE Lookup([l.s EXCEPT !.lwt = l.s.file.mtime], key, default_value, TRUE)
  ELSE Lookup(s, key, default_value, FALSE)

\* GetValue2 looking up the format itself, without formatString (273)
GetValue2Unformatted(s, default_value, fmt, args, env) ==
  IF ~s.file.exists
  THEN [s |-> s, outcome |-> "ok", result |-> default_value, reloaded |-> FALSE]
  ELSE LET key == fmt
       IN  IF s.lwt # s.file.mtime
           THEN LET l == LoadContentTbl(s, env.load_ok)
                IN  IF ~l.ok
                    THEN [s |-> l.s, outcome |-> "storage_error", result |-> None,
                          reloaded |-> FALSE]
                    ELSE Lookup([l.s EXCEPT !.lwt = l.s.file.mtime], key,
                                default_value, TRUE)
           ELSE Lookup(s, key, default_value, FALSE)

(***************************************************************************)
(* GetValue2 (settings.h:251-284)                                          *)
(***************************************************************************)
GetValue2(s, default_value, fmt, args, env) ==
  IF ~s.file.exists
  THEN [s |-> s, outcome |-> "ok", result |-> default_value, reloaded |-> FALSE]
  ELSE LET key == FormatString(fmt, args)
       IN  IF s.lwt # s.file.mtime
           THEN LET l == LoadContentTbl(s, env.load_ok)
                IN  IF ~l.ok
                    THEN [s |-> l.s, outcome |-> "storage_error", result |-> None,
                          reloaded |-> FALSE]
                    ELSE Lookup([l.s EXCEPT !.lwt = l.s.file.mtime], key,
                                default_value, TRUE)
           ELSE Lookup(s, key, default_value, FALSE)

(***************************************************************************)
(* SetValue (settings.h:308-362), the body under the lock.                 *)
(*   env.create_ok  the directory and the file can be created (316-333)    *)
(*   env.load_ok    the file can be opened for the reload (340)            *)
(*   env.store_ok   the file can be opened for writing (357)               *)
(*   env.dt         the clock's advance between the open and the close of  *)
(*                  the written stream                                     *)
(***************************************************************************)
\* 312-336: a missing file is created empty and its time recorded
SetValueCreate(s) ==
  LET f == [exists |-> TRUE, content |-> << >>, mtime |-> s.now]
  IN  [s EXCEPT !.file = f, !.lwt = f.mtime]

\* 347-356: the value's string goes into the table
SetValueInsert(s, key, value) ==
  [s EXCEPT !.tbl = InsertOrAssign(@, key, ToValueString(value))]

\* SetValue that keeps to the table when there is no file: nothing is
\* created (312-336 left out, and the write with it)
SetValueNoCreate(s, key, value, env) ==
  IF ~s.file.exists
  THEN [s |-> SetValueInsert(s, key, value), outcome |-> "ok", reloaded |-> FALSE]
  ELSE LET stale == s.lwt # s.file.mtime
           l  == IF stale THEN LoadContentTbl(s, env.load_ok)
                 ELSE [ok |-> TRUE, s |-> s]
       IN  IF ~l.ok
           THEN [s |-> l.s, outcome |-> "storage_error", reloaded |-> FALSE]
           ELSE LET w == StoreContentTbl(SetValueInsert(l.s, key, value),
                                         env.store_ok, env.dt)
                IN  [s |-> w.s, outcome |-> IF w.ok THEN "ok" ELSE "storage_error",
                     reloaded |-> stale]

SetValue(s, key, value, env) ==
  IF ~s.file.exists /\ ~env.create_ok
  THEN [s |-> s, outcome |-> "storage_error", reloaded |-> FALSE]
  ELSE LET s1 == IF ~s.file.exists THEN SetValueCreate(s) ELSE s
           stale == s1.lwt # s1.file.mtime
           l  == IF stale THEN LoadContentTbl(s1, env.load_ok)
                 ELSE [ok |-> TRUE, s |-> s1]
       IN  IF ~l.ok
           THEN [s |-> l.s, outcome |-> "storage_error", reloaded |-> FALSE]
           ELSE LET w == StoreContentTbl(SetValueInsert(l.s, key, value),
                                         env.store_ok, env.dt)
                IN  [s |-> w.s, outcome |-> IF w.ok THEN "ok" ELSE "storage_error",
                     reloaded |-> stale]

(***************************************************************************)
(* The inputs the specifications draw from.                                *)
(***************************************************************************)
KeyA1 == << "a", ".", "1" >>      \* section a, key 1
KeyK  == << "k" >>                \* no dot: no section
KeyMK == << "m", ".", "k" >>      \* section m, key k

Keys == { KeyA1, KeyK, KeyMK }

\* a key with at least two non-empty dot-separated segments
WellFormed(key) ==
  /\ Len(Split(key, << "." >>)) >= 2
  /\ JoinDot(Split(key, << "." >>)) = key

\* values for SetValue<std::string>, SetValue<int> and SetValue<bool>
SetValues == { Str(<< "1" >>), Int_(1), Bool(TRUE) }

\* defaults for GetValue<std::string>, GetValue<int> and GetValue<bool>
Defaults == { Str(<< "d" >>), Int_(0), Bool(FALSE) }

\* format calls of GetValue2: "m.%s" with "k", "a.%d" with 1, "%s" with "k"
FormatCalls ==
  { [fmt |-> << "m", ".", "%", "s" >>, args |-> << Str(<< "k" >>) >>],
    [fmt |-> << "a", ".", "%", "d" >>, args |-> << Int_(1) >>],
    [fmt |-> << "%", "s" >>,           args |-> << Str(<< "k" >>) >>] }

Defaults2 == { Str(<< "d" >>) }

\* what another process writes to the file: nothing (a truncation), or one
\* section with one key
ExternalContents ==
  { << >>,
    << "[", "m", "]", "\n", "k", "=", "w", "\n" >> }

\* the line `echo " " >> file` appends
BlankLine == << " ", "\n" >>

\* how many such lines another process appends to one content
MaxBlankLines == 1

RECURSIVE TrailingBlankLines(_)
TrailingBlankLines(text) ==
  IF Len(text) >= 2 /\ SubSeq(text, Len(text) - 1, Len(text)) = BlankLine
  THEN 1 + TrailingBlankLines(Take(text, Len(text) - 2))
  ELSE 0

\* What the environment decides during one call: at most one of the opens
\* or creations fails, and the clock advances by dt (0 or 1) between the open
\* and the close of the stream StoreContentTbl writes.
Env(fail, dt) ==
  [create_ok |-> fail # "create", load_ok |-> fail # "load",
   store_ok |-> fail # "store", dt |-> dt]

\* the open or creation that fails under env, "none" when all succeed
Failure(env) ==
  IF ~env.create_ok THEN "create"
  ELSE IF ~env.load_ok THEN "load"
  ELSE IF ~env.store_ok THEN "store"
  ELSE "none"

GetEnvs == { Env(f, 0) : f \in {"none", "load"} }

SetEnvs(t) ==
  { Env(f, 0) : f \in {"none", "create", "load", "store"} }
    \cup { Env("none", dt) : dt \in { d \in {1} : t + d <= MaxTime } }

(***************************************************************************)
(* The sequential specification: every member function runs from lock to   *)
(* unlock as one step; between the steps the clock ticks and other         *)
(* processes write, extend or delete the file.                             *)
(***************************************************************************)
NoThreads == [t \in {} |-> 0]

\* no store for another path has been used
NoPeer ==
  [tbl |-> EmptyTbl, lwt |-> 0, file |-> NoFile, mutex |-> "free", thr |-> NoThreads]

\* GetInstance has been called once: the instance the specifications of
\* the member functions are about
Constructed ==
  /\ ins = 1
  /\ flag = "done"
  /\ heap = << "live" >>
  /\ caller = NoThreads
  /\ peer = NoPeer

InitStore ==
  /\ content_tbl_ = EmptyTbl
  /\ last_write_time_ = 0
  /\ now = 1
  /\ op = [name |-> "Settings", key |-> << >>, arg |-> None, result |-> None,
           outcome |-> "ok", reloaded |-> FALSE, fail |-> "none"]

Init ==
  /\ InitStore
  /\ file \in { NoFile } \cup
              { [exists |-> TRUE, content |-> c, mtime |-> 1] : c \in ExternalContents }
  /\ ini_rw_mutex_ = "free"
  /\ thr = NoThreads
  /\ shadow = [tbl |-> EmptyTbl, lwt |-> 0, file |-> NoFile]
  /\ Constructed

Apply(r) ==
  /\ content_tbl_' = r.s.tbl
  /\ last_write_time_' = r.s.lwt
  /\ file' = r.s.file
  /\ now' = r.s.now

CallGetValue(K, D) ==
  \E key \in K, d \in D, env \in GetEnvs :
    LET r == GetValue(Store, key, d, env)
    IN  /\ Apply(r)
        /\ op' = [name |-> "GetValue", key |-> key, arg |-> d, result |-> r.result,
                  outcome |-> r.outcome, reloaded |-> r.reloaded,
                  fail |-> Failure(env)]
        /\ UNCHANGED conc

CallGetValue2(F, D) ==
  \E f \in F, d \in D, env \in GetEnvs :
    LET r == GetValue2(Store, d, f.fmt, f.args, env)
    IN  /\ Apply(r)
        /\ op' = [name |-> "GetValue2", key |-> FormatString(f.fmt, f.args), arg |-> d,
                  result |-> r.result, outcome |-> r.outcome, reloaded |-> r.reloaded,
                  fail |-> Failure(env)]
        /\ UNCHANGED conc

CallSetValue(K, V) ==
  \E key \in K, value \in V, env \in SetEnvs(now) :
    LET r == SetValue(Store, key, value, env)
    IN  /\ Apply(r)
        /\ op' = [name |-> "SetValue", key |-> key, arg |-> value, result |-> None,
                  outcome |-> r.outcome, reloaded |-> r.reloaded,
                  fail |-> Failure(env)]
        /\ UNCHANGED conc

External(name) ==
  op' = [name |-> name, key |-> << >>, arg |-> None, result |-> None,
         outcome |-> "ok", reloaded |-> FALSE, fail |-> "none"]

\* another process rewrites the file
ExternalWrite(C) ==
  \E c \in C :
    /\ file' = [exists |-> TRUE, content |-> c, mtime |-> now]
    /\ External("ExternalWrite")
    /\ UNCHANGED << content_tbl_, last_write_time_, now, conc >>

\* another process appends a blank line (ini_settings_test.cc:167-170)
ExternalAppend ==
  /\ file.exists
  /\ TrailingBlankLines(file.content) < MaxBlankLines
  /\ file' = [file EXCEPT !.content = @ \o BlankLine, !.mtime = now]
  /\ External("ExternalAppend")
  /\ UNCHANGED << content_tbl_, last_write_time_, now, conc >>

\* another process removes the file (ini_settings_test.cc:175)
ExternalDelete ==
  /\ file.exists
  /\ file' = NoFile
  /\ External("ExternalDelete")
  /\ UNCHANGED << content_tbl_, last_write_time_, now, conc >>

Tick ==
  /\ now < MaxTime
  /\ now' = now + 1
  /\ External("Tick")
  /\ UNCHANGED << content_tbl_, last_write_time_, file, conc >>

Next ==
  \/ CallGetValue(Keys, Defaults)
  \/ CallGetValue2(FormatCalls, Defaults2)
  \/ CallSetValue(Keys, SetValues)
  \/ ExternalWrite(ExternalContents)
  \/ ExternalAppend
  \/ ExternalDelete
  \/ Tick

Spec == Init /\ [][Next]_vars

(***************************************************************************)
(* Properties of the sequential specification.  In an action formula the   *)
(* unprimed variables are the state a call starts in, the primed ones the  *)
(* state it ends in, and op' names the call and holds what it returned.    *)
(***************************************************************************)
Gets == { "GetValue", "GetValue2" }

\* the table ReadIni makes of a file's content
Parse(text) == ReadIni(text, EmptyTbl)

\* a value whose string has no white space at its ends and is not empty: the
\* file format keeps it as it is
Clean(value) ==
  /\ ToValueString(value) # << >>
  /\ Trim(ToValueString(value)) = ToValueString(value)

\* C1 (round trip), stated for the values the file format keeps unchanged:
\* when SetValue(k, v) with a well-formed key k has returned and the next
\* step is GetValue<T>(k) of the same type T, with no file error, the call
\* returns v as encoded by SetValue and decoded by ConvertValue.
C1_RoundTrip ==
  [][ ( /\ op.name = "SetValue" /\ op.outcome = "ok"
        /\ WellFormed(op.key) /\ Clean(op.arg)
        /\ op'.name = "GetValue" /\ op'.key = op.key /\ op'.arg.t = op.arg.t
        /\ op'.outcome # "storage_error" )
      => ( /\ op'.outcome = "ok"
           /\ op'.result = ConvertValue(ToValueString(op.arg), op'.arg).val ) ]_vars

\* C2 (durability of writes), stated for the values the file format keeps
\* unchanged: after a SetValue(k, v) that returned, with k well-formed, the
\* parse of the file holds v for k, and holds the table's value for every
\* other well-formed key of the table whose value is such a value.
C2_Durable ==
  ( /\ op.name = "SetValue" /\ op.outcome = "ok"
    /\ WellFormed(op.key) /\ Clean(op.arg) )
  => /\ file.exists
     /\ op.key \in DOMAIN Parse(file.content)
     /\ Parse(file.content)[op.key] = ToValueString(op.arg)
     /\ \A k \in DOMAIN content_tbl_ :
          ( WellFormed(k) /\ content_tbl_[k] # << >>
            /\ Trim(content_tbl_[k]) = content_tbl_[k] )
          => /\ k \in DOMAIN Parse(file.content)
             /\ Parse(file.content)[k] = content_tbl_[k]

\* C3 (staleness reload): a GetValue or GetValue2 that starts with the file
\* present and its modification time different from last_write_time_, and
\* that can open the file, leaves as the table the parse of the file and as
\* last_write_time_ the file's time, and what it returns is the file's value
\* for the key, converted, or the default when the file has no such key.
C3_StalenessReload ==
  [][ ( /\ op'.name \in Gets
        /\ file.exists /\ last_write_time_ # file.mtime
        /\ op'.outcome # "storage_error" )
      => ( /\ content_tbl_' = Parse(file.content)
           /\ last_write_time_' = file.mtime
           /\ file' = file
           /\ op'.reloaded
           /\ op'.outcome = "ok" =>
                op'.result =
                  IF op'.key \in DOMAIN Parse(file.content)
                  THEN ConvertValue(Parse(file.content)[op'.key], op'.arg).val
                  ELSE op'.arg ) ]_vars

\* C3's case: a read just reloaded a file whose value for the key differs from
\* the value cached before (the table had the key, the file has another value)
C3_Witness ==
  /\ op.name \in Gets /\ op.reloaded /\ op.outcome = "ok"
  /\ op.key \in DOMAIN content_tbl_
  /\ op.result # op.arg

\* C4 (a missing file is not an error): a GetValue or GetValue2 that starts
\* with no file returns the default, with no error and no load, and leaves
\* the table, the timestamp and the (missing) file as they were.
C4_MissingFile ==
  [][ ( op'.name \in Gets /\ ~file.exists )
      => ( /\ op'.outcome = "ok"
           /\ op'.result = op'.arg
           /\ ~op'.reloaded
           /\ content_tbl_' = content_tbl_
           /\ last_write_time_' = last_write_time_
           /\ file' = file ) ]_vars

\* C4's case: the file is gone while the table still holds the key asked for
C4_Witness ==
  /\ op.name \in Gets /\ ~file.exists
  /\ op.key \in DOMAIN content_tbl_
  /\ op.result = op.arg

\* the entries of the file before a call: none when there is no file
FileEntries(f) == IF f.exists THEN Parse(f.content) ELSE EmptyTbl

\* C5 (a write with a key that has no dot): a SetValue(k, v) that returned,
\* with k without a dot, leaves a file that has no entry for k and has every
\* entry the file had before the call, with the same value, and no other.
C5_NoDotWrite ==
  [][ ( /\ op'.name = "SetValue" /\ op'.outcome = "ok"
        /\ Len(Split(op'.key, << "." >>)) < 2 )
      => ( /\ file'.exists
           /\ op'.key \notin DOMAIN Parse(file'.content)
           /\ Parse(file'.content) = FileEntries(file) ) ]_vars

\* C6 (a key with no dot is never returned as present): a GetValue or
\* GetValue2 that returns, for a key without a dot, returns the default.
C6_NoDotAbsent ==
  ( /\ op.name \in Gets /\ op.outcome = "ok"
    /\ Len(Split(op.key, << "." >>)) < 2 )
  => op.result = op.arg

\* the table a read looks the key up in: the parse of the file when the file
\* is stale, the table as it is otherwise
TableRead ==
  IF last_write_time_ # file.mtime THEN Parse(file.content) ELSE content_tbl_

\* C7 (a default is not persisted): a GetValue or GetValue2 that starts with
\* the file present and returns, for a key absent from the table it reads,
\* returns the default, leaves exactly that table and leaves the file as it
\* was; and a read of the same key that follows at once returns its own
\* default.
C7_DefaultNotPersisted ==
  [][ /\ ( /\ op'.name \in Gets /\ op'.outcome = "ok"
           /\ file.exists /\ op'.key \notin DOMAIN TableRead )
         => ( /\ op'.result = op'.arg
              /\ content_tbl_' = TableRead
              /\ file' = file )
      /\ ( /\ op.name \in Gets /\ op.outcome = "ok" /\ op.result = op.arg
           /\ op.key \notin DOMAIN content_tbl_
           /\ op'.name \in Gets /\ op'.key = op.key
           /\ file.exists )
         => ( /\ op'.outcome = "ok"
              /\ op'.result = op'.arg
              /\ op'.key \notin DOMAIN content_tbl_' ) ]_vars

\* C7's case: a read has returned the default for a well-formed key that the
\* table, just reloaded from an existing file, does not hold
C7_Witness ==
  /\ op.name \in Gets /\ op.outcome = "ok" /\ op.reloaded
  /\ file.exists /\ file.content # << >>
  /\ WellFormed(op.key)
  /\ op.key \notin DOMAIN content_tbl_
  /\ op.result = op.arg


(***************************************************************************)
(* The concurrent specification: threads share one instance, and every     *)
(* member function runs statement by statement.  A thread is               *)
(*   "idle"         between calls                                          *)
(*   "exists"       at the test of std::filesystem::exists (290, 256, 312) *)
(*   "create"       at the creation of the missing file (316-335)          *)
(*   "stale"        at the comparison of the modification times (294, 339) *)
(*   "load_open"    at the opening of the stream in LoadContentTbl (226)   *)
(*   "load_read"    at ReadIni (235)                                       *)
(*   "load_stat"    at the reading of the modification time (300)          *)
(*   "lookup"       at the lookup and conversion (302-305)                 *)
(*   "insert"       at insert_or_assign (356)                              *)
(*   "store_open"   at the opening of the stream in StoreContentTbl (240)  *)
(*   "store_stat"   at the reading of the modification time (247)          *)
(*   "store_close"  at the destruction of the stream (248)                 *)
(*   "unlock"       at the destruction of the lock_guard, on return and on *)
(*                  throw alike                                            *)
(*   "print"        in the loop of operator<< over content_tbl_ (191-193)  *)
(*   "dump"         in DumpFile, at the reading of the file (197-205)      *)
(* The file is not changed from outside; the clock ticks.                  *)
(***************************************************************************)
Threads == { "w1", "w2", "r1" }

\* how many calls each thread makes
MaxCalls == 1

NoFormat == [fmt |-> << >>, args |-> << >>]

NoCall == [name |-> "none", key |-> << >>, f |-> NoFormat, arg |-> None]

\* The calls of each thread: the writers write distinct values, w2 to the
\* key of w1 or to another key, with a section or without; the reader r1
\* reads the key of w1 as a string, r2 reads it as an int; d1 prints the
\* table or dumps the file.
ConcCalls(t) ==
  CASE t = "w1" ->
         { [name |-> "SetValue", key |-> KeyMK, f |-> NoFormat, arg |-> Str(<< "1" >>)] }
    [] t = "w2" ->
         { [name |-> "SetValue", key |-> k, f |-> NoFormat, arg |-> Int_(2)] :
             k \in { KeyMK, KeyA1, KeyK } }
    [] t = "r1" ->
         { [name |-> "GetValue", key |-> KeyMK, f |-> NoFormat, arg |-> Str(<< "d" >>)],
           [name |-> "GetValue2", key |-> << >>,
            f |-> [fmt |-> << "m", ".", "%", "s" >>, args |-> << Str(<< "k" >>) >>],
            arg |-> Str(<< "d" >>)] }
    [] t = "r2" ->
         { [name |-> "GetValue", key |-> KeyMK, f |-> NoFormat, arg |-> Int_(0)] }
    [] t = "d1" ->
         { [name |-> n, key |-> << >>, f |-> NoFormat, arg |-> None] :
             n \in { "operator<<", "DumpFile" } }

\* the key a call is about
CallKey(c) ==
  IF c.name = "GetValue2" THEN FormatString(c.f.fmt, c.f.args) ELSE c.key

IdleThread ==
  [pc |-> "idle", call |-> NoCall, key |-> << >>, buffer |-> << >>,
   fail |-> "none", t_stamp |-> 0, dt |-> 0, had |-> FALSE, reloaded |-> FALSE,
   result |-> None, outcome |-> "none",
   expect |-> [outcome |-> "none", result |-> None], calls |-> 0]

\* a lock that does not wait for the mutex to be free
CanLockAlways(mutex) == TRUE

\* std::lock_guard's constructor returns once the mutex is free
CanLock(mutex) == mutex = "free"

\* GetValue and GetValue2 run without the lock
LocksSetValueOnly(name) == name = "SetValue"

\* every member function starts with a lock_guard on ini_rw_mutex_
\* (255, 289, 311)
Locks(name) == name \in { "GetValue", "GetValue2", "SetValue" }

InBody(t) == thr[t].pc # "idle"

Projection(s) == [tbl |-> s.tbl, lwt |-> s.lwt, file |-> s.file]

\* the store of the calls completed so far, after a thread's call is added
\* to them: the call runs alone, at the time it stamped the file, with the
\* failure it met and the clock's advance it saw
Sequential(t) ==
  LET me == thr[t]
      s0 == [tbl |-> shadow.tbl, lwt |-> shadow.lwt, file |-> shadow.file,
             now |-> IF me.t_stamp # 0 THEN me.t_stamp ELSE now]
      g  == IF me.call.name = "GetValue2"
            THEN GetValue2(s0, me.call.arg, me.call.f.fmt, me.call.f.args,
                           Env(me.fail, 0))
            ELSE GetValue(s0, me.call.key, me.call.arg, Env(me.fail, 0))
      w  == SetValue(s0, me.call.key, me.call.arg, Env(me.fail, me.dt))
  IN  IF me.call.name = "SetValue"
      THEN [s |-> w.s, outcome |-> w.outcome, result |-> None]
      ELSE IF me.call.name \in Gets
      THEN [s |-> g.s, outcome |-> g.outcome, result |-> g.result]
      ELSE [s |-> s0, outcome |-> me.outcome, result |-> None]

ConcInitFor(T) ==
  /\ \/ /\ InitStore
        /\ file = NoFile
     \/ LET r == SetValue([tbl |-> EmptyTbl, lwt |-> 0, file |-> NoFile, now |-> 1],
                          KeyMK, Str(<< "w" >>), Env("none", 0))
        IN  /\ content_tbl_ = r.s.tbl
            /\ last_write_time_ = r.s.lwt
            /\ file = r.s.file
            /\ now = 1
            /\ op = [name |-> "SetValue", key |-> KeyMK, arg |-> Str(<< "w" >>),
                     result |-> None, outcome |-> "ok", reloaded |-> FALSE,
                     fail |-> "none"]
  /\ ini_rw_mutex_ = "free"
  /\ thr = [t \in T |-> IdleThread]
  /\ Constructed
  /\ shadow = [tbl |-> content_tbl_, lwt |-> last_write_time_, file |-> file]


\* a thread's record changes; `same` holds for what the step leaves alone
Step(t, me) == thr' = [thr EXCEPT ![t] = me]

Throw(t, fail) ==
  Step(t, [thr[t] EXCEPT !.pc = "unlock", !.outcome = "storage_error", !.fail = fail])

\* the store holds a key in full: in the table and in the file
Holds(key) ==
  /\ key \in DOMAIN content_tbl_
  /\ key \in DOMAIN ReadIni(file.content, EmptyTbl)

\* what follows the reload, or the comparison when there is none
AfterLoad(name) == IF name = "SetValue" THEN "insert" ELSE "lookup"

\* where a call starts after its first statement
FirstPc(name) ==
  CASE name = "operator<<" -> "print"
    [] name = "DumpFile"   -> "dump"
    [] OTHER               -> "exists"

\* 255, 289, 311: the call starts by taking the lock; operator<< and DumpFile
\* have no lock_guard and start at once
Lock(t) ==
  /\ thr[t].pc = "idle"
  /\ thr[t].calls < MaxCalls
  /\ \E c \in ConcCalls(t) :
       /\ Locks(c.name) => CanLock(ini_rw_mutex_)
       /\ ini_rw_mutex_' = IF Locks(c.name) THEN t ELSE ini_rw_mutex_
       /\ Step(t, [IdleThread EXCEPT !.pc = FirstPc(c.name), !.call = c,
                                     !.outcome = "running",
                                     !.had = Holds(CallKey(c)),
                                     !.calls = thr[t].calls])
  /\ UNCHANGED << content_tbl_, last_write_time_, file, now, op, single, shadow >>

\* 256-258, 290-292: a read of a missing file returns the default;
\* 312: a write of a missing file creates it; 269: GetValue2 formats its key
Exists(t) ==
  /\ thr[t].pc = "exists"
  /\ Step(t, IF file.exists
             THEN [thr[t] EXCEPT !.pc = "stale", !.key = CallKey(thr[t].call)]
             ELSE IF thr[t].call.name = "SetValue"
             THEN [thr[t] EXCEPT !.pc = "create", !.key = CallKey(thr[t].call)]
             ELSE [thr[t] EXCEPT !.pc = "unlock", !.outcome = "ok",
                                 !.result = thr[t].call.arg])
  /\ UNCHANGED << content_tbl_, last_write_time_, file, now, op, single, ini_rw_mutex_, shadow >>

\* 316-335
Create(t) ==
  /\ thr[t].pc = "create"
  /\ \E create_ok \in BOOLEAN :
       IF create_ok
       THEN /\ Apply([s |-> SetValueCreate(Store)])
            /\ Step(t, [thr[t] EXCEPT !.pc = "stale", !.t_stamp = now])
       ELSE /\ Throw(t, "create")
            /\ UNCHANGED << content_tbl_, last_write_time_, file, now >>
  /\ UNCHANGED << op, single, ini_rw_mutex_, shadow >>

\* 294, 339
Stale(t) ==
  /\ thr[t].pc = "stale"
  /\ Step(t, [thr[t] EXCEPT !.pc = IF last_write_time_ # file.mtime
                                   THEN "load_open"
                                   ELSE AfterLoad(thr[t].call.name)])
  /\ UNCHANGED << content_tbl_, last_write_time_, file, now, op, single, ini_rw_mutex_, shadow >>

\* 226-233, and 295-299 or 340-344 when the stream does not open
LoadOpenStep(t) ==
  /\ thr[t].pc = "load_open"
  /\ \E open_ok \in BOOLEAN :
       IF open_ok
       THEN /\ Apply([s |-> LoadOpen(Store)])
            /\ Step(t, [thr[t] EXCEPT !.pc = "load_read", !.reloaded = TRUE])
       ELSE /\ Throw(t, "load")
            /\ UNCHANGED << content_tbl_, last_write_time_, file, now >>
  /\ UNCHANGED << op, single, ini_rw_mutex_, shadow >>

\* 235
LoadReadStep(t) ==
  /\ thr[t].pc = "load_read"
  /\ Apply([s |-> LoadRead(Store)])
  /\ Step(t, [thr[t] EXCEPT !.pc = IF thr[t].call.name = "SetValue"
                                   THEN "insert" ELSE "load_stat"])
  /\ UNCHANGED << op, single, ini_rw_mutex_, shadow >>

\* 300, 278
LoadStat(t) ==
  /\ thr[t].pc = "load_stat"
  /\ last_write_time_' = file.mtime
  /\ Step(t, [thr[t] EXCEPT !.pc = "lookup"])
  /\ UNCHANGED << content_tbl_, file, now, op, single, ini_rw_mutex_, shadow >>

\* 302-305, 280-283
LookupStep(t) ==
  /\ thr[t].pc = "lookup"
  /\ LET r == Lookup(Store, thr[t].key, thr[t].call.arg, thr[t].reloaded)
     IN  Step(t, [thr[t] EXCEPT !.pc = "unlock", !.outcome = r.outcome,
                                !.result = r.result])
  /\ UNCHANGED << content_tbl_, last_write_time_, file, now, op, single, ini_rw_mutex_, shadow >>

\* 347-356
Insert(t) ==
  /\ thr[t].pc = "insert"
  /\ Apply([s |-> SetValueInsert(Store, thr[t].key, thr[t].call.arg)])
  /\ Step(t, [thr[t] EXCEPT !.pc = "store_open"])
  /\ UNCHANGED << op, single, ini_rw_mutex_, shadow >>

\* 240-246, and 357-361 when the stream does not open
StoreOpenStep(t) ==
  /\ thr[t].pc = "store_open"
  /\ \E open_ok \in BOOLEAN :
       IF open_ok
       THEN /\ Apply([s |-> StoreOpen(Store)])
            /\ Step(t, [thr[t] EXCEPT !.pc = "store_stat", !.t_stamp = now,
                                      !.buffer = WriteIni(content_tbl_)])
       ELSE /\ Throw(t, "store")
            /\ UNCHANGED << content_tbl_, last_write_time_, file, now >>
  /\ UNCHANGED << op, single, ini_rw_mutex_, shadow >>

\* 247
StoreStatStep(t) ==
  /\ thr[t].pc = "store_stat"
  /\ Apply([s |-> StoreStat(Store)])
  /\ Step(t, [thr[t] EXCEPT !.pc = "store_close"])
  /\ UNCHANGED << op, single, ini_rw_mutex_, shadow >>

\* 248
StoreCloseStep(t) ==
  /\ thr[t].pc = "store_close"
  /\ Apply([s |-> StoreClose(Store, thr[t].buffer)])
  /\ Step(t, [thr[t] EXCEPT !.pc = "unlock", !.outcome = "ok",
                            !.dt = IF thr[t].buffer = << >> THEN 0
                                   ELSE now - thr[t].t_stamp])
  /\ UNCHANGED << op, single, ini_rw_mutex_, shadow >>

\* a lock_guard that is released on return only
ReleasedOnReturn(outcome) == outcome = "ok"

\* the lock_guard is a local of the call: it is destroyed when the call
\* returns and when an exception leaves it
ReleasedOn(outcome) == outcome \in { "ok", "storage_error", "conversion_error" }

\* the lock_guard is destroyed as the call returns or throws
Unlock(t) ==
  /\ thr[t].pc = "unlock"
  /\ ini_rw_mutex_' = IF Locks(thr[t].call.name) /\ ReleasedOn(thr[t].outcome)
                      THEN "free" ELSE ini_rw_mutex_
  /\ LET q == Sequential(t)
     IN  /\ shadow' = Projection(q.s)
         /\ Step(t, [thr[t] EXCEPT !.pc = "idle", !.calls = @ + 1,
                                   !.expect = [outcome |-> q.outcome,
                                               result |-> q.result]])
  /\ UNCHANGED << content_tbl_, last_write_time_, file, now, op, single >>

ConcTick ==
  /\ now < MaxTime
  /\ now' = now + 1
  /\ UNCHANGED << content_tbl_, last_write_time_, file, op, conc >>

\* the statements of GetValue, GetValue2 and SetValue
ThreadStep(t) ==
  \/ Lock(t)
  \/ Exists(t)
  \/ Create(t)
  \/ Stale(t)
  \/ LoadOpenStep(t)
  \/ LoadReadStep(t)
  \/ LoadStat(t)
  \/ LookupStep(t)
  \/ Insert(t)
  \/ StoreOpenStep(t)
  \/ StoreStatStep(t)
  \/ StoreCloseStep(t)
  \/ Unlock(t)

ConcNextFor(T) ==
  \/ \E t \in T : ThreadStep(t)
  \/ ConcTick

\* 190-195: the text operator<< prints for a table
RECURSIVE OstreamLoop(_, _)
OstreamLoop(keys, tbl) ==
  IF keys = << >> THEN << >>
  ELSE << "*" >> \o Head(keys) \o << " ", "=", " " >> \o tbl[Head(keys)] \o << "\n" >>
         \o OstreamLoop(Tail(keys), tbl)

OstreamText(tbl) == OstreamLoop(SortedKeys(DOMAIN tbl), tbl)

\* 202-205: the lines DumpFile prints, each ended by std::endl
DumpLines(text) ==
  IF text = << >> \/ text[Len(text)] = "\n" THEN text ELSE text \o << "\n" >>

\* another thread is at a statement that writes content_tbl_
TableWriterRunning(t) ==
  \E u \in DOMAIN thr \ { t } : thr[u].pc \in { "load_open", "load_read", "insert" }

\* 190-195: operator<< iterates over content_tbl_ with no lock.  Next to a
\* statement of another thread that writes the table the iteration is a data
\* race: it prints the table, or its behaviour is undefined.
OstreamStep(t) ==
  /\ thr[t].pc = "print"
  /\ \E outcome \in { "ok" } \cup
                      (IF TableWriterRunning(t) THEN { "undefined" } ELSE {}) :
       Step(t, [thr[t] EXCEPT !.pc = "unlock", !.outcome = outcome,
                              !.buffer = IF outcome = "ok"
                                         THEN OstreamText(content_tbl_) ELSE << >>])
  /\ UNCHANGED << content_tbl_, last_write_time_, file, now, op, single, ini_rw_mutex_, shadow >>

\* 196-206: DumpFile opens the file with no lock and prints its lines, or
\* returns when the file does not open
DumpFileStep(t) ==
  /\ thr[t].pc = "dump"
  /\ Step(t, [thr[t] EXCEPT !.pc = "unlock", !.outcome = "ok",
                            !.buffer = IF file.exists THEN DumpLines(file.content)
                                       ELSE << >>])
  /\ UNCHANGED << content_tbl_, last_write_time_, file, now, op, single, ini_rw_mutex_, shadow >>

ConcInit == ConcInitFor(Threads)

ConcNext == ConcNextFor(Threads)

ConcSpec == ConcInit /\ [][ConcNext]_vars

(***************************************************************************)
(* The concurrent specification with a writer, a reader of an int and a    *)
(* thread that prints the table or dumps the file.                         *)
(***************************************************************************)
ObsThreads == { "w1", "r2", "d1" }

ObsInit == ConcInitFor(ObsThreads)

ObsNext ==
  \/ ConcNextFor(ObsThreads)
  \/ \E t \in ObsThreads :
       \/ OstreamStep(t)
       \/ DumpFileStep(t)

ObsSpec == ObsInit /\ [][ObsNext]_vars

\* a thread can take a step: it is inside a call, or it has a call to make
\* that needs no lock or finds the mutex free
Ready(t) ==
  \/ thr[t].pc # "idle"
  \/ /\ thr[t].calls < MaxCalls
     /\ \E c \in ConcCalls(t) : Locks(c.name) => CanLock(ini_rw_mutex_)

\* Weak fairness of every thread: a thread that can take a step from some
\* point on takes one in the end.  This is WF_vars of the thread's steps
\* with ENABLED written out as Ready(t).  The calls are bounded, so a thread
\* that waits for the mutex finds it free from some point on.
ObsFair ==
  \A t \in ObsThreads :
    \/ []<>(~Ready(t))
    \/ []<><<ThreadStep(t) \/ OstreamStep(t) \/ DumpFileStep(t)>>_vars

ObsLiveSpec == ObsSpec /\ ObsFair


(***************************************************************************)
(* Properties of the concurrent specification.                             *)
(***************************************************************************)
\* a thread's last call has returned to its caller
Returned(t) == thr[t].pc = "idle" /\ thr[t].outcome = "ok"

\* the strings the SetValue calls of the threads write for a key, and the
\* string the store held for it before the threads started
WrittenFor(key) ==
  { ToValueString(c.arg) :
      c \in { d \in UNION { ConcCalls(t) : t \in Threads } :
                d.name = "SetValue" /\ d.key = key } }
    \cup (IF key = KeyMK THEN { << "w" >> } ELSE {})

\* C8: no torn reads.  While writer threads call SetValue for a key and a
\* reader thread calls GetValue for it, every read that starts when the
\* store holds the key in full (in the table and in the file) returns a
\* string some SetValue wrote (or the one the table held before the threads
\* started): never the default, the empty string or a fragment.
C8_NoTornRead ==
  \A t \in Threads :
    (Returned(t) /\ thr[t].call.name \in Gets /\ thr[t].had)
      => /\ thr[t].result.t = "string"
         /\ thr[t].result.s \in WrittenFor(CallKey(thr[t].call))
         /\ thr[t].result # thr[t].call.arg

\* a read reloaded the file a writer thread had written and returned the
\* writer's value, while another writer has its call still to make
C8_Witness ==
  \E t \in Threads, u \in Threads :
    /\ Returned(t) /\ thr[t].call.name \in Gets /\ thr[t].had /\ thr[t].reloaded
    /\ thr[t].result.s \in { << "1" >>, << "2" >> }
    /\ thr[u].pc = "idle" /\ thr[u].calls = 0

\* Whenever no call is running, the table, the recorded time and the file
\* are those the completed calls leave when run one after the other in the
\* order they took the lock, and each call ended and returned as in that
\* sequential run.
SequentialEquivalent ==
  (\A t \in Threads : ~InBody(t)) =>
    /\ Projection(Store) = shadow
    /\ \A t \in Threads :
         thr[t].calls > 0 =>
           /\ thr[t].expect.outcome = thr[t].outcome
           /\ thr[t].outcome = "ok" => thr[t].expect.result = thr[t].result

\* C9: the calls are linearizable in the order of their locking, and no
\* update is lost.  Whenever no call is running, the table and the file are
\* those of the sequential run of the completed calls, and the key of every
\* SetValue that returned is in the table with one of the values written
\* for it and, when it names a section, in the file as well.
C9_Linearizable ==
  (\A t \in Threads : ~InBody(t)) =>
    /\ SequentialEquivalent
    /\ \A t \in Threads :
         (Returned(t) /\ thr[t].call.name = "SetValue") =>
           LET key == thr[t].call.key
           IN  /\ key \in DOMAIN content_tbl_
               /\ content_tbl_[key] \in WrittenFor(key)
               /\ WellFormed(key) =>
                    /\ key \in DOMAIN Parse(file.content)
                    /\ Parse(file.content)[key] \in WrittenFor(key)

\* C10: mutual exclusion.  GetValue, GetValue2 and SetValue take the lock
\* before they touch the file or the table and hold it until they return or
\* throw: a thread inside a body is the holder of the mutex, so no two
\* threads are inside a body at once.
C10_MutualExclusion ==
  /\ \A t \in Threads : InBody(t) => ini_rw_mutex_ = t
  /\ \A t \in Threads, u \in Threads : (InBody(t) /\ InBody(u)) => t = u

\* a call is about to throw and still holds the lock, while the other
\* threads have their calls to make
C10_Witness ==
  \E t \in Threads :
    /\ thr[t].pc = "unlock" /\ thr[t].outcome = "storage_error"
    /\ ini_rw_mutex_ = t
    /\ \A u \in Threads \ { t } : thr[u].pc = "idle" /\ thr[u].calls < MaxCalls

(***************************************************************************)
(* The singleton: GetInstance (130-137) and DestroyInstance (139-142),     *)
(* statement by statement.  A caller is                                    *)
(*   "idle"       between calls                                            *)
(*   "test"       at `if (!ins)` (132)                                     *)
(*   "call_once"  at std::call_once (134)                                  *)
(*   "new"        inside the lambda, at `new (std::nothrow) Settings()`    *)
(*   "init"       inside the lambda, the instance allocated: the           *)
(*                constructor's writes and the write of ins are to come    *)
(*   "return"     at `return *ins` (136)                                   *)
(*   "delete"     at `delete ins` (141)                                    *)
(* `ins` is a plain pointer that 132 reads outside call_once while 134     *)
(* writes it inside: a data race.  Nothing orders the write of the pointer *)
(* and the writes of the constructor for the thread that reads at 132, so  *)
(* the two become visible in either order.                                 *)
(***************************************************************************)
Callers == { "t1", "t2" }

\* how many calls each caller makes
MaxInstanceCalls == 2

IdleCaller ==
  [pc |-> "idle", name |-> "none", obj |-> 0, ref |-> 0, got |-> "none",
   after_destroy |-> FALSE, calls |-> 0]

SingletonInit ==
  /\ InitStore
  /\ file = NoFile
  /\ ini_rw_mutex_ = "free"
  /\ thr = NoThreads
  /\ shadow = [tbl |-> EmptyTbl, lwt |-> 0, file |-> NoFile]
  /\ ins = 0
  /\ flag = "new"
  /\ heap = << >>
  /\ caller = [t \in Callers |-> IdleCaller]
  /\ peer = NoPeer

Move(t, me) == caller' = [caller EXCEPT ![t] = me]

\* an instance has been deleted
Destroyed == \E i \in 1..Len(heap) : heap[i] \in { "destroyed", "deleted_twice" }

\* a thread calls GetInstance, or DestroyInstance, whose first statement
\* (140) calls GetInstance
Call(t, name) ==
  /\ caller[t].pc = "idle"
  /\ caller[t].calls < MaxInstanceCalls
  /\ Move(t, [IdleCaller EXCEPT !.pc = "test", !.name = name,
                                !.after_destroy = Destroyed,
                                !.calls = caller[t].calls])
  /\ UNCHANGED << store, ins, flag, heap >>

\* 132
TestIns(t) ==
  /\ caller[t].pc = "test"
  /\ Move(t, [caller[t] EXCEPT !.pc = IF ins # 0 THEN "return" ELSE "call_once"])
  /\ UNCHANGED << store, ins, flag, heap >>

\* 134: the first caller runs the lambda; a caller that finds the lambda
\* running waits; a caller that finds it done goes on
CallOnce(t) ==
  /\ caller[t].pc = "call_once"
  /\ flag # "running"
  /\ IF flag = "new"
     THEN /\ flag' = "running"
          /\ Move(t, [caller[t] EXCEPT !.pc = "new"])
     ELSE /\ flag' = flag
          /\ Move(t, [caller[t] EXCEPT !.pc = "return"])
  /\ UNCHANGED << store, ins, heap >>

\* 134: operator new returns the storage of a new instance
New(t) ==
  /\ caller[t].pc = "new"
  /\ heap' = Append(heap, "raw")
  /\ Move(t, [caller[t] EXCEPT !.pc = "init", !.obj = Len(heap) + 1])
  /\ UNCHANGED << store, ins, flag >>

\* 134: the writes of the constructor become visible
Construct(t) ==
  /\ caller[t].pc = "init"
  /\ heap[caller[t].obj] = "raw"
  /\ heap' = [heap EXCEPT ![caller[t].obj] = "live"]
  /\ UNCHANGED << store, ins, flag, caller >>

\* 134: the write of ins becomes visible
Publish(t) ==
  /\ caller[t].pc = "init"
  /\ ins # caller[t].obj
  /\ ins' = caller[t].obj
  /\ UNCHANGED << store, flag, heap, caller >>

\* 134: the lambda returns and call_once marks the flag
OnceDone(t) ==
  /\ caller[t].pc = "init"
  /\ heap[caller[t].obj] # "raw"
  /\ ins = caller[t].obj
  /\ flag' = "done"
  /\ Move(t, [caller[t] EXCEPT !.pc = "return"])
  /\ UNCHANGED << store, ins, heap >>

\* 136: GetInstance returns *ins; `got` is what the reference refers to at
\* that moment.  In DestroyInstance the pointer goes on to 141.
Return(t) ==
  /\ caller[t].pc = "return"
  /\ Move(t, IF caller[t].name = "GetInstance"
             THEN [caller[t] EXCEPT !.pc = "idle", !.ref = ins, !.got = heap[ins],
                                    !.calls = @ + 1]
             ELSE [caller[t] EXCEPT !.pc = "delete", !.ref = ins, !.got = heap[ins]])
  /\ UNCHANGED << store, ins, flag, heap >>

\* 141: delete ins.  The statics ins and flag are left as they are.
Delete(t) ==
  /\ caller[t].pc = "delete"
  /\ heap' = [heap EXCEPT ![caller[t].ref] =
                IF @ \in { "destroyed", "deleted_twice" } THEN "deleted_twice"
                ELSE "destroyed"]
  /\ Move(t, [caller[t] EXCEPT !.pc = "idle", !.calls = @ + 1])
  /\ UNCHANGED << store, ins, flag >>

SingletonNext ==
  \E t \in Callers :
    \/ Call(t, "GetInstance")
    \/ Call(t, "DestroyInstance")
    \/ TestIns(t)
    \/ CallOnce(t)
    \/ New(t)
    \/ Construct(t)
    \/ Publish(t)
    \/ OnceDone(t)
    \/ Return(t)
    \/ Delete(t)

SingletonSpec == SingletonInit /\ [][SingletonNext]_vars

(***************************************************************************)
(* Properties of the concurrent specification with the printing thread.    *)
(***************************************************************************)
\* C11: the lock guards every access.  No member function reads or writes
\* the table or the timestamp or the file without holding the mutex: a
\* thread inside any member function, operator<< and DumpFile included,
\* while another thread is inside SetValue, is the holder of the mutex.
C11_LockGuardsEveryAccess ==
  \A t \in DOMAIN thr :
    (InBody(t) /\ \E u \in DOMAIN thr \ { t } :
                    InBody(u) /\ thr[u].call.name = "SetValue")
      => ini_rw_mutex_ = t

Errors == { "storage_error", "conversion_error" }

\* C12: the lock is released on every exit path.  A thread whose call has
\* ended with a storage error or a conversion error does not hold the
\* mutex, and once a call has ended with an error every thread still makes
\* all its calls and ends them: no call waits for the lock for ever.
C12_LockReleased ==
  /\ [](\A t \in DOMAIN thr :
          (thr[t].pc = "idle" /\ thr[t].outcome \in Errors) => ini_rw_mutex_ # t)
  /\ \A t \in ObsThreads :
       (\E u \in ObsThreads : thr[u].pc = "idle" /\ thr[u].outcome \in Errors)
         ~> (thr[t].pc = "idle" /\ thr[t].calls = MaxCalls)

\* a read has ended with a conversion error, and after it the writer has
\* taken the lock and is inside SetValue
C12_Witness ==
  /\ thr["r2"].pc = "idle" /\ thr["r2"].outcome = "conversion_error"
  /\ InBody("w1") /\ ini_rw_mutex_ = "w1"

(***************************************************************************)
(* Properties of the singleton.                                            *)
(***************************************************************************)
\* a caller's last call was GetInstance and has returned
Got(t) ==
  caller[t].pc = "idle" /\ caller[t].name = "GetInstance" /\ caller[t].ref # 0

Dead == { "destroyed", "deleted_twice" }

\* C13: single initialization.  However many threads call GetInstance at
\* once, the first access included, one instance is constructed, and every
\* call made while nothing has been destroyed returns a reference to that
\* instance, constructed.
C13_SingleInit ==
  /\ Len(heap) <= 1
  /\ \A t \in DOMAIN caller :
       (Got(t) /\ ~caller[t].after_destroy /\ caller[t].got \notin Dead)
         => caller[t].ref = 1 /\ caller[t].got = "live"

\* C14: teardown, then a fresh instance.  A GetInstance called after a
\* DestroyInstance has deleted the instance returns a reference to a new
\* instance, constructed and not destroyed, and no instance is deleted
\* twice.
C14_FreshAfterDestroy ==
  /\ \A t \in DOMAIN caller :
       (Got(t) /\ caller[t].after_destroy)
         => caller[t].got = "live" /\ caller[t].ref # 1
  /\ \A i \in 1..Len(heap) : heap[i] # "deleted_twice"

(***************************************************************************)
(* Claims about failures of the file system, the table's invariant and the *)
(* reload before a read or a write, under Spec.                            *)
(***************************************************************************)
Calls == Gets \cup { "SetValue" }

\* C15 (state unchanged on a storage failure): a GetValue, GetValue2 or
\* SetValue that ends with a storage error leaves the in-memory table
\* exactly as it was before the call; a SetValue(k, v) whose write fails
\* does not leave k = v in the table.
C15_UnchangedOnStorageError ==
  [][ (op'.name \in Calls /\ op'.outcome = "storage_error")
        => content_tbl_' = content_tbl_ ]_vars

\* The file exists and its modification time is not the one last observed:
\* the next call reloads it
FileStale == file.exists /\ last_write_time_ # file.mtime

\* C16 (storage failures are fatal): a call that needs a reload the file
\* cannot be opened for, a SetValue whose file cannot be opened for writing
\* and a SetValue that cannot create the missing file each end with a storage
\* error and return no value, neither the default nor a cached one.
C16_StorageErrorsFatal ==
  [][ ( \/ op'.name \in Calls /\ op'.fail = "load" /\ FileStale
        \/ op'.name = "SetValue" /\ op'.fail = "store"
        \/ op'.name = "SetValue" /\ op'.fail = "create" /\ ~file.exists )
        => (op'.outcome = "storage_error" /\ op'.result = None) ]_vars

\* a read that needed a reload, with the table holding a value for the key,
\* ended with a storage error
C16_Witness ==
  /\ op.name \in Gets
  /\ op.fail = "load"
  /\ op.outcome = "storage_error"
  /\ op.key \in DOMAIN content_tbl_

\* C17 (the table's invariant): in every reachable state every key of the
\* in-memory table has a dot and maps to a non-empty value.
C17_TableInvariant ==
  \A key \in DOMAIN content_tbl_ :
    /\ \E i \in 1..Len(key) : key[i] = "."
    /\ content_tbl_[key] # << >>

\* C18 (no redundant reload): after a GetValue, GetValue2 or SetValue that
\* returned, with the file present, the timestamp the store last observed is
\* the file's modification time.
C18_TimestampCurrent ==
  [][ (op'.name \in Calls /\ op'.outcome = "ok" /\ file'.exists)
        => last_write_time_' = file'.mtime ]_vars

\* the entries of table tbl other than the one of key
Without(tbl, key) == [k \in DOMAIN tbl \ { key } |-> tbl[k]]

\* A SetValue(k, v) with k among K that finds the file modified since the
\* store last observed it, and returns, leaves the table the parse of that
\* file with k = v, and a file whose entries are those of that parse (other
\* than k) with k = v when k is well-formed.
ReloadThenWrite(K) ==
  (op'.name = "SetValue" /\ op'.key \in K /\ op'.outcome = "ok" /\ FileStale)
    => LET left == Parse(file.content)
           k    == op'.key
           v    == ToValueString(op'.arg)
       IN  /\ content_tbl_' = InsertOrAssign(left, k, v)
           /\ Without(FileEntries(file'), k) = Without(left, k)
           /\ WellFormed(k) =>
                (k \in DOMAIN FileEntries(file') /\ FileEntries(file')[k] = v)

\* the same for the keys with a section, which WriteIni writes
ReloadThenWriteWellFormed == [][ReloadThenWrite({ k \in Keys : WellFormed(k) })]_vars

\* C19 (read before write): a SetValue(k, v) that finds the file modified
\* since the store last loaded or wrote it replaces the table by the parse
\* of the file first, so that afterwards the file has every entry the
\* modification left (other than k) together with k = v, and no entry that
\* was in the stale table alone.
C19_ReadBeforeWrite == [][ReloadThenWrite(Keys)]_vars

\* C20 (GetValue2 is GetValue on the formatted key): a GetValue2(d, fmt,
\* args) returns the value, ends with the outcome and leaves the table, the
\* timestamp and the file that GetValue(K, d) does from the same state, K
\* being fmt with args substituted as printf does: "s.a%d.b" with 3 is
\* "s.a3.b", "%s%d" with "s.k" and 1 is "s.k1".
C20_GetValue2AsGetValue ==
  [][ /\ op'.name = "GetValue2" =>
           LET g == GetValue(Store, op'.key, op'.arg, Env(op'.fail, 0))
           IN  /\ op'.result = g.result
               /\ op'.outcome = g.outcome
               /\ content_tbl_' = g.s.tbl
               /\ last_write_time_' = g.s.lwt
               /\ file' = g.s.file
      /\ FormatString(<< "s", ".", "a", "%", "d", ".", "b" >>, << Int_(3) >>)
           = << "s", ".", "a", "3", ".", "b" >>
      /\ FormatString(<< "%", "s", "%", "d" >>, << Str(<< "s", ".", "k" >>), Int_(1) >>)
           = << "s", ".", "k", "1" >> ]_vars

\* a GetValue2 found the value of its formatted key, which is not its format
C20_Witness ==
  /\ op.name = "GetValue2"
  /\ op.outcome = "ok"
  /\ op.key \in DOMAIN content_tbl_
  /\ op.result = Str(content_tbl_[op.key])
  /\ op.result # op.arg

(***************************************************************************)
(* The codec specification: the store starts on a file another process     *)
(* wrote, of up to MaxLines lines drawn from CodecLines (section headers,   *)
(* key lines with and without text after the value, comment lines, blank   *)
(* lines, a key with nothing after the `=`), and GetValue and SetValue run  *)
(* on it, which applies ReadIni, ConvertValue and WriteIni.                 *)
(***************************************************************************)
KeyAK == << "a", ".", "k" >>      \* section a, key k

CodecLines ==
  { << "[", "m", "]" >>,
    << "k", "=", "v", " ", "#", "x" >>,
    << "k", " ", "=", " ", "1", " ", ";", "x" >>,
    << "#", "k", "=", "0" >>,
    << " ", ";", "[", "a", "]" >>,
    << " " >>,
    << "k", "=" >> }

MaxLines == 3

\* the texts of at most n lines, each ended by a newline
RECURSIVE TextsOf(_)
TextsOf(n) ==
  IF n = 0 THEN { << >> }
  ELSE LET shorter == TextsOf(n - 1)
       IN  shorter \cup { t \o l \o << "\n" >> : t \in shorter, l \in CodecLines }

CodecKeys == { KeyMK, KeyAK, KeyK }

\* SetValue<std::string> with "", "true" and "1x", SetValue<bool> with both
\* values
CodecValues ==
  { Str(<< >>), Str(<< "t", "r", "u", "e" >>), Str(<< "1", "x" >>),
    Bool(TRUE), Bool(FALSE) }

\* the defaults of GetValue<std::string>, GetValue<int> and GetValue<bool>,
\* the last with both values
CodecDefaults == Defaults \cup { Bool(TRUE) }

CodecInit ==
  /\ InitStore
  /\ file \in { [exists |-> TRUE, content |-> c, mtime |-> 1] : c \in TextsOf(MaxLines) }
  /\ ini_rw_mutex_ = "free"
  /\ thr = NoThreads
  /\ shadow = [tbl |-> EmptyTbl, lwt |-> 0, file |-> NoFile]
  /\ Constructed

\* the environments in which every open and creation succeeds
OkEnvs(t) == { Env("none", dt) : dt \in { d \in {0, 1} : t + d <= MaxTime } }

\* GetValue<T>(key, default_value) with the file readable
CodecGetValue(K, D) ==
  \E key \in K, d \in D :
    LET env == Env("none", 0)
        r   == GetValue(Store, key, d, env)
    IN  /\ Apply(r)
        /\ op' = [name |-> "GetValue", key |-> key, arg |-> d, result |-> r.result,
                  outcome |-> r.outcome, reloaded |-> r.reloaded,
                  fail |-> Failure(env)]
        /\ UNCHANGED conc

\* SetValue<T>(key, value) with the file readable and writable
CodecSetValue(K, V) ==
  \E key \in K, value \in V, env \in OkEnvs(now) :
    LET r == SetValue(Store, key, value, env)
    IN  /\ Apply(r)
        /\ op' = [name |-> "SetValue", key |-> key, arg |-> value, result |-> None,
                  outcome |-> r.outcome, reloaded |-> r.reloaded,
                  fail |-> Failure(env)]
        /\ UNCHANGED conc

CodecNext ==
  \/ CodecGetValue(CodecKeys, CodecDefaults)
  \/ CodecSetValue(CodecKeys, CodecValues)

CodecSpec == CodecInit /\ [][CodecNext]_vars

(***************************************************************************)
(* Claims about the codec, under CodecSpec.                                *)
(***************************************************************************)
\* the last line of a text that ends with a newline, and the text before it
LastLine(text) == GetLines(text)[Len(GetLines(text))]

BeforeLastLine(text) == Take(text, Len(text) - Len(LastLine(text)) - 1)

EndsWithLine(text, line) == GetLines(text) # << >> /\ LastLine(text) = line

\* the section ReadIni is in after the text
SectionAt(text) ==
  ReadIniLoop([tbl |-> EmptyTbl, section |-> << >>], GetLines(text)).section

\* the key lines of CodecLines with text after the value: the line, the
\* trimmed text after its `=` and the trimmed text before the `#` or `;`
InlineComments ==
  { [line   |-> << "k", "=", "v", " ", "#", "x" >>,
     whole  |-> << "v", " ", "#", "x" >>,
     before |-> << "v" >>],
    [line   |-> << "k", " ", "=", " ", "1", " ", ";", "x" >>,
     whole  |-> << "1", " ", ";", "x" >>,
     before |-> << "1" >>] }

\* a GetValue has read a file whose last line is the key line c.line of key k,
\* inside a section
ReadsInlineComment(c) ==
  /\ op'.name = "GetValue"
  /\ op'.reloaded
  /\ EndsWithLine(file.content, c.line)
  /\ SectionAt(BeforeLastLine(file.content)) # << >>

KeyOfLastLine == SectionAt(BeforeLastLine(file.content)) \o << ".", "k" >>

C22_InlineCommentRemoved ==
  [][ \A c \in InlineComments :
        (ReadsInlineComment(c) /\ op'.key = KeyOfLastLine /\ op'.arg.t = "string")
          => (op'.outcome = "ok" /\ op'.result = Str(c.before)) ]_vars

\* a full-line comment or a blank line: nothing but white space, or `;` or
\* `#` as the first character that is not white space
CommentOrBlank(line) ==
  \/ \A i \in 1..Len(line) : IsSpace(line[i])
  \/ \E i \in 1..Len(line) :
       /\ line[i] \in { ";", "#" }
       /\ \A j \in 1..(i - 1) : IsSpace(line[j])

\* the lines joined back, each with its newline
RECURSIVE JoinLines(_)
JoinLines(lines) ==
  IF lines = << >> THEN << >>
  ELSE Head(lines) \o << "\n" >> \o JoinLines(Tail(lines))

\* a text without its full-line comments and blank lines
WithoutComments(text) ==
  JoinLines(SelectSeq(GetLines(text), LAMBDA l : ~CommentOrBlank(l)))

\* C23 (full-line comments are excluded): the table a GetValue loads is the
\* one the file without its comment lines and blank lines gives, such a line
\* leaves the section as it was, and a key that only a comment line names is
\* absent: GetValue returns the default for it.
C23_CommentLinesSkipped ==
  [][ (op'.name = "GetValue" /\ op'.reloaded) =>
        /\ content_tbl_' = Parse(WithoutComments(file.content))
        /\ SectionAt(file.content) = SectionAt(WithoutComments(file.content))
        /\ op'.key \notin DOMAIN Parse(WithoutComments(file.content))
             => (op'.outcome = "ok" /\ op'.result = op'.arg) ]_vars

\* GetValue("m.k") returned the default from a file with "#k=0" under [m]
C23_Witness ==
  /\ op.name = "GetValue"
  /\ op.reloaded
  /\ op.key = KeyMK
  /\ op.result = op.arg
  /\ file.content = << "[", "m", "]", "\n", "#", "k", "=", "0", "\n" >>

\* GetValue("m.k") found the value of a key line that follows a commented-out
\* header of section a
CommentedHeaderRead ==
  /\ op.name = "GetValue"
  /\ op.reloaded
  /\ op.key = KeyMK
  /\ op.result = Str(<< "v", " ", "#", "x" >>)
  /\ file.content = << "[", "m", "]", "\n", " ", ";", "[", "a", "]", "\n",
                       "k", "=", "v", " ", "#", "x", "\n" >>

\* the text of a decimal integer: an optional sign, then digits only
NumberText(value) ==
  LET dig == IF value # << >> /\ Head(value) \in { "-", "+" } THEN Tail(value) ELSE value
  IN  dig # << >> /\ \A i \in 1..Len(dig) : IsDigit(dig[i])

\* C24 (a failed conversion is fatal): a GetValue<int> for a key whose stored
\* value is not empty and is not a number, a number followed by other
\* characters included, ends with an error; it returns neither the default
\* nor the number its first characters give.
C24_ConversionFatal ==
  [][ ( /\ op'.name = "GetValue"
        /\ op'.arg.t = "int"
        /\ op'.key \in DOMAIN content_tbl_'
        /\ content_tbl_'[op'.key] # << >>
        /\ ~NumberText(content_tbl_'[op'.key]) )
        => (op'.outcome = "conversion_error" /\ op'.result = None) ]_vars

\* the same for the stored values that do not start as a number does
ConversionFatalNoDigits ==
  [][ ( /\ op'.name = "GetValue"
        /\ op'.arg.t = "int"
        /\ op'.key \in DOMAIN content_tbl_'
        /\ content_tbl_'[op'.key] # << >>
        /\ ~Stoi(content_tbl_'[op'.key]).ok )
        => (op'.outcome = "conversion_error" /\ op'.result = None) ]_vars

\* C25 (an empty value yields the default): a GetValue of any type for a key
\* the table holds with the empty string, put there by SetValue(k, "") or by
\* a line `key=`, returns the default; and the GetValue(k, d) that follows a
\* SetValue(k, "") returns d, from the table as well as after a reload.
C25_EmptyYieldsDefault ==
  [][ /\ ( /\ op'.name = "GetValue"
           /\ op'.key \in DOMAIN content_tbl_'
           /\ content_tbl_'[op'.key] = << >> )
           => (op'.outcome = "ok" /\ op'.result = op'.arg)
      /\ ( /\ op.name = "SetValue" /\ op.arg = Str(<< >>) /\ op.outcome = "ok"
           /\ op'.name = "GetValue" /\ op'.key = op.key )
           => (op'.outcome = "ok" /\ op'.result = op'.arg) ]_vars

\* GetValue<int>("m.k", 0) returned 0 for the empty value a line `k=` gave
C25_Witness ==
  /\ op.name = "GetValue"
  /\ op.reloaded
  /\ op.arg.t = "int"
  /\ op.key \in DOMAIN content_tbl_
  /\ content_tbl_[op.key] = << >>
  /\ op.result = op.arg

\* GetValue returned the default after the reload that followed SetValue(k, "")
EmptyReloaded ==
  /\ op.name = "GetValue"
  /\ op.reloaded
  /\ op.key \notin DOMAIN content_tbl_
  /\ last_write_time_ = now
  /\ now > 1
  /\ op.result = op.arg

BoolRoundTrip ==
  [][ ( /\ op.name = "SetValue" /\ op.arg.t = "bool" /\ op.outcome = "ok"
        /\ op'.name = "GetValue" /\ op'.arg.t = "bool" /\ op'.key = op.key )
        => op'.result = op.arg ]_vars

(***************************************************************************)
(* The store with a file only the store writes, apart from the blank lines *)
(* another process appends to it (ini_settings_test.cc:165-173).           *)
(***************************************************************************)
AppendInit == Init /\ file = NoFile

AppendNext ==
  \/ CallGetValue(Keys, Defaults)
  \/ CallSetValue(Keys, SetValues)
  \/ ExternalAppend
  \/ Tick

AppendSpec == AppendInit /\ [][AppendNext]_vars

\* the store and the file after the step
StoreAfter ==
  [tbl |-> content_tbl_', lwt |-> last_write_time_', file |-> file', now |-> now']

\* what GetValue<T>(key, d) gives from store s when the file can be read
Read(s, key, d) ==
  LET r == GetValue(s, key, d, Env("none", 0))
  IN  [outcome |-> r.outcome, result |-> r.result]

\* C27 (a neutral change of the file does not alter reads): when another
\* process appends a line of white space to the file the store wrote, which
\* changes the modification time and forces a reload, GetValue gives for
\* every key after the change what it gave just before it.
C27_NeutralChange ==
  [][ (op'.name = "ExternalAppend" /\ file'.mtime # last_write_time_')
        => \A key \in Keys, d \in Defaults :
             Read(StoreAfter, key, d) = Read(Store, key, d) ]_vars

\* the same for a store whose table has keys with a section only and is
\* what the file holds
NeutralChangeWellFormed ==
  [][ ( /\ op'.name = "ExternalAppend" /\ file'.mtime # last_write_time_'
        /\ \A key \in DOMAIN content_tbl_ : WellFormed(key)
        /\ content_tbl_ = FileEntries(file) )
        => \A key \in Keys, d \in Defaults :
             Read(StoreAfter, key, d) = Read(Store, key, d) ]_vars

(***************************************************************************)
(* Claims about the file SetValue writes, under Spec.                      *)
(***************************************************************************)
\* an entry WriteIni has a line for: a value that is not empty under a key
\* with a section
Serializable(tbl, key) == tbl[key] # << >> /\ WellFormed(key)

\* C28 (SetValue creates the file): a SetValue that finds no file and
\* returns has created it; the file exists afterwards, for every key and
\* value, and is empty when the table holds nothing WriteIni has a line for.
C28_CreatesFile ==
  [][ (op'.name = "SetValue" /\ op'.outcome = "ok" /\ ~file.exists)
        => /\ file'.exists
           /\ (\A key \in DOMAIN content_tbl_' : ~Serializable(content_tbl_', key))
                => file'.content = << >> ]_vars

\* SetValue("k", v) returned on a store that never loaded a file: the file
\* exists and is empty
C28_Witness ==
  /\ op.name = "SetValue"
  /\ op.key = KeyK
  /\ op.outcome = "ok"
  /\ ~op.reloaded
  /\ DOMAIN content_tbl_ = { KeyK }
  /\ file.exists
  /\ file.content = << >>
  /\ last_write_time_ = file.mtime

\* C30 (WriteIni skips invalid entries one by one): the file a SetValue
\* writes has a line for exactly the entries of the table whose value is not
\* empty and whose key has at least two segments; an entry without a section
\* or with an empty value does not keep a later entry from being written.
C30_SkipsIndividually ==
  [][ (op'.name = "SetValue" /\ op'.outcome = "ok")
        => FileEntries(file')
             = [key \in { k \in DOMAIN content_tbl_' : Serializable(content_tbl_', k) }
                  |-> content_tbl_'[key]] ]_vars

(***************************************************************************)
(* Two instantiations.  Settings<IniFullPath> is a class template over the *)
(* path (127-128): Settings<A> and Settings<B> are different classes, each *)
(* with its own static instance (131) and, in it, its own content_tbl_,    *)
(* last_write_time_ and ini_rw_mutex_ (219-221).  The threads of           *)
(* HomeThreads call the store of A statement by statement; the threads of  *)
(* PeerThreads call the store of B, `peer`, where a call is three steps:   *)
(* the lock_guard takes B's mutex, the body runs, the lock_guard releases. *)
(***************************************************************************)
HomeThreads == { "w1", "r1" }

PeerThreads == { "p1", "p2" }

\* p1 writes a key of B, p2 reads it
PeerCalls(t) ==
  IF t = "p1"
  THEN { [name |-> "SetValue", key |-> KeyMK, arg |-> Str(<< "2" >>)] }
  ELSE { [name |-> "GetValue", key |-> KeyMK, arg |-> Str(<< "d" >>)] }

\* `met` is the thread that held the mutex of A when the call took the mutex
\* of B
IdlePeer ==
  [pc |-> "idle", call |-> [name |-> "none", key |-> << >>, arg |-> None],
   result |-> None, outcome |-> "none", met |-> "free", calls |-> 0]

\* the members of Settings<B> and its file
PeerStore == [tbl |-> peer.tbl, lwt |-> peer.lwt, file |-> peer.file, now |-> now]

\* one mutex for all instantiations, as a static of a common base would be
PeerCanLockShared == peer.mutex = "free" /\ ini_rw_mutex_ = "free"

\* std::lock_guard on the ini_rw_mutex_ of Settings<B>
PeerCanLock == peer.mutex = "free"

PeerMove(t, me) == [peer EXCEPT !.thr[t] = me]

\* a thread calls GetValue or SetValue of Settings<B>
PeerCall(t) ==
  /\ peer.thr[t].pc = "idle"
  /\ peer.thr[t].calls < MaxCalls
  /\ \E c \in PeerCalls(t) :
       peer' = PeerMove(t, [peer.thr[t] EXCEPT !.pc = "lock", !.call = c,
                                               !.result = None, !.outcome = "none"])
  /\ UNCHANGED home

\* 255, 289, 311
PeerLock(t) ==
  /\ peer.thr[t].pc = "lock"
  /\ PeerCanLock
  /\ peer' = [PeerMove(t, [peer.thr[t] EXCEPT !.pc = "body", !.met = ini_rw_mutex_])
                EXCEPT !.mutex = t]
  /\ UNCHANGED home

\* the body of GetValue (290-305) or SetValue (312-361) on the members and
\* the file of Settings<B>
PeerBody(t) ==
  /\ peer.thr[t].pc = "body"
  /\ LET c == peer.thr[t].call
         r == IF c.name = "SetValue"
              THEN SetValue(PeerStore, c.key, c.arg, Env("none", 0))
                     @@ [result |-> None]
              ELSE GetValue(PeerStore, c.key, c.arg, Env("none", 0))
     IN  peer' = [PeerMove(t, [peer.thr[t] EXCEPT !.pc = "unlock",
                                                  !.result = r.result,
                                                  !.outcome = r.outcome])
                    EXCEPT !.tbl = r.s.tbl, !.lwt = r.s.lwt, !.file = r.s.file]
  /\ UNCHANGED home

\* the lock_guard's destructor
PeerUnlock(t) ==
  /\ peer.thr[t].pc = "unlock"
  /\ peer' = [PeerMove(t, [peer.thr[t] EXCEPT !.pc = "idle", !.calls = @ + 1])
                EXCEPT !.mutex = "free"]
  /\ UNCHANGED home

\* the steps inside a call
PeerProgress(t) == PeerLock(t) \/ PeerBody(t) \/ PeerUnlock(t)

PeerStep(t) == PeerCall(t) \/ PeerProgress(t)

PeerInit ==
  /\ InitStore
  /\ file = NoFile
  /\ ini_rw_mutex_ = "free"
  /\ thr = [t \in HomeThreads |-> IdleThread]
  /\ shadow = [tbl |-> content_tbl_, lwt |-> last_write_time_, file |-> file]
  /\ ins = 1
  /\ flag = "done"
  /\ heap = << "live" >>
  /\ caller = NoThreads
  /\ peer = [NoPeer EXCEPT !.thr = [t \in PeerThreads |-> IdlePeer]]

PeerNext ==
  \/ ConcNextFor(HomeThreads)
  \/ \E t \in PeerThreads : PeerStep(t)

PeerSpec == PeerInit /\ [][PeerNext]_vars

\* a thread inside a call of Settings<B> can take its next step
PeerReady(t) ==
  \/ peer.thr[t].pc \in { "body", "unlock" }
  \/ peer.thr[t].pc = "lock" /\ PeerCanLock

\* Weak fairness of the threads that call Settings<B>, with ENABLED written
\* out as PeerReady(t).  The threads that call Settings<A> have no fairness:
\* one may stop for good in the middle of a call, holding the mutex of A.
PeerFair ==
  \A t \in PeerThreads :
    \/ []<>(~PeerReady(t))
    \/ []<><<PeerProgress(t)>>_vars

PeerLiveSpec == PeerSpec /\ PeerFair

\* C29 (instances are independent): whatever the threads of the store of path
\* A do or fail to do, also when one stops inside GetValue or SetValue with
\* the lock of A held, every call of the store of path B takes B's lock and
\* returns; and no step of a call on A changes B's table, timestamp or file.
C29_Independent ==
  /\ [][ (thr' # thr \/ ini_rw_mutex_' # ini_rw_mutex_)
           => (peer'.tbl = peer.tbl /\ peer'.lwt = peer.lwt /\ peer'.file = peer.file)
       ]_vars
  /\ \A t \in PeerThreads :
       (peer.thr[t].pc = "lock") ~> (peer.thr[t].pc = "idle")

\* a SetValue on B took B's lock and returned while w1 was inside its call on
\* A, with the lock of A held, where w1 still is
C29_Witness ==
  /\ ini_rw_mutex_ = "w1"
  /\ InBody("w1")
  /\ peer.thr["p1"].pc = "idle"
  /\ peer.thr["p1"].calls = 1
  /\ peer.thr["p1"].met = "w1"
  /\ peer.thr["p1"].outcome = "ok"
  /\ KeyMK \in DOMAIN peer.tbl
  /\ KeyMK \notin DOMAIN content_tbl_

(***************************************************************************)
(* The store next to another writer of the file.  The threads of           *)
(* HomeThreads call the store statement by statement with keys that have a *)
(* section and values without white space; between any two statements      *)
(* another process may rewrite the file.  The file system stamps every     *)
(* rewrite with a modification time of its own: a rewrite waits for the    *)
(* clock to pass the file's time.                                          *)
(***************************************************************************)
RaceInit ==
  /\ InitStore
  /\ file \in { NoFile } \cup
              { [exists |-> TRUE, content |-> c, mtime |-> 1] : c \in ExternalContents }
  /\ ini_rw_mutex_ = "free"
  /\ thr = [t \in HomeThreads |-> IdleThread]
  /\ shadow = [tbl |-> content_tbl_, lwt |-> last_write_time_, file |-> file]
  /\ Constructed

\* another process rewrites the file while the threads run
RaceWrite(C) ==
  /\ file.mtime < now
  /\ \E c \in C : file' = [exists |-> TRUE, content |-> c, mtime |-> now]
  /\ UNCHANGED << content_tbl_, last_write_time_, now, op, conc >>

RaceNext ==
  \/ ConcNextFor(HomeThreads)
  \/ RaceWrite(ExternalContents)

RaceSpec == RaceInit /\ [][RaceNext]_vars

\* no call is in progress
Quiescent == \A t \in DOMAIN thr : thr[t].pc = "idle"

\* C31 (cache coherence under external writers): whenever no call is in
\* progress, the file exists and last_write_time_ equals the file's
\* modification time, the table is the parse of the file's content.
C31_CacheCoherent ==
  (Quiescent /\ file.exists /\ last_write_time_ = file.mtime)
    => content_tbl_ = ReadIni(file.content, EmptyTbl)

\* the same of the states no call has reached with a failed open or creation
CoherentUnlessFailed ==
  (Quiescent /\ file.exists /\ last_write_time_ = file.mtime
     /\ \A t \in DOMAIN thr : thr[t].fail = "none")
    => content_tbl_ = ReadIni(file.content, EmptyTbl)

\* the same of the states no call has reached with a failed open or creation
\* or through a reload in GetValue or GetValue2
CoherentAfterOwnWrite ==
  (Quiescent /\ file.exists /\ last_write_time_ = file.mtime
     /\ \A t \in DOMAIN thr :
          /\ thr[t].fail = "none"
          /\ thr[t].call.name = "SetValue" \/ ~thr[t].reloaded)
    => content_tbl_ = ReadIni(file.content, EmptyTbl)

(***************************************************************************)
(* Properties of the sequential specification: the file removed by another *)
(* process.                                                                *)
(***************************************************************************)
\* C32 (deleted content is not resurrected): a SetValue(k, v) that finds the
\* file removed recreates it with the entry of k only, and afterwards GetValue
\* returns the default for every other key the table held when the file was
\* removed.
C32_NoResurrection ==
  [][ (op'.name = "SetValue" /\ op'.outcome = "ok" /\ ~file.exists)
        => /\ DOMAIN FileEntries(file') \subseteq { op'.key }
           /\ \A key \in DOMAIN content_tbl_ \ { op'.key }, d \in Defaults :
                Read(StoreAfter, key, d) = [outcome |-> "ok", result |-> d] ]_vars

\* while the file is missing GetValue returns the default for a cached key
DefaultWhileDeleted ==
  [][ (op'.name = "GetValue" /\ ~file.exists /\ op'.key \in DOMAIN content_tbl_)
        => (op'.outcome = "ok" /\ op'.result = op'.arg /\ ~file'.exists) ]_vars

\* the same of a table whose keys all have a section, and of such a key k
NoResurrectionWellFormed ==
  [][ (op'.name = "SetValue" /\ op'.outcome = "ok" /\ ~file.exists
         /\ \A key \in DOMAIN content_tbl_' : WellFormed(key))
        => DOMAIN FileEntries(file') \subseteq { op'.key } ]_vars

(***************************************************************************)
(* The parser specification: ReadIni on the texts of a few lines, with and *)
(* without a newline after the last line.  The file is written before the  *)
(* store first looks at it; the first GetValue reads it with               *)
(* LoadContentTbl, the later ones answer from the table.                   *)
(***************************************************************************)
KeyBK  == << "b", ".", "k" >>                \* section b, key k
KeyMBK == << "m", ".", "b", ".", "k" >>      \* section m, key b.k

\* a header, two key lines of one key, a `[` without `]`, a line without
\* `=`, a line that starts with `=`, and a key line with a dot in its key,
\* blanks around its `=` and a second `=`
ParseLines ==
  { << "[", "m", "]" >>,
    << "k", "=", "v" >>,
    << "k", "=", "w" >>,
    << "[", "a" >>,
    << "k" >>,
    << "=", "v" >>,
    << "b", ".", "k", " ", "=", " ", "v", "=", "w" >> }

MaxParseLines == 4

\* the texts of at most n lines of L, each ended by a newline
RECURSIVE LineTexts(_, _)
LineTexts(L, n) ==
  IF n = 0 THEN { << >> }
  ELSE LET shorter == LineTexts(L, n - 1)
       IN  shorter \cup { t \o l \o << "\n" >> : t \in shorter, l \in L }

\* the same texts, and each without the newline after its last line
ParseTexts ==
  LET whole == LineTexts(ParseLines, MaxParseLines)
  IN  whole \cup { Take(t, Len(t) - 1) : t \in whole \ { << >> } }

ParseKeys == { KeyMK, KeyMBK, KeyBK }

ParseInit ==
  /\ InitStore
  /\ file \in { [exists |-> TRUE, content |-> c, mtime |-> 1] : c \in ParseTexts }
  /\ ini_rw_mutex_ = "free"
  /\ thr = NoThreads
  /\ shadow = [tbl |-> EmptyTbl, lwt |-> 0, file |-> NoFile]
  /\ Constructed

ParseNext == CodecGetValue(ParseKeys, Defaults2)

ParseSpec == ParseInit /\ [][ParseNext]_vars

(***************************************************************************)
(* Properties of the parser.  Loaded says that content_tbl_ is what        *)
(* ReadIni made of the file's content.  A line here is a line of the       *)
(* input, the last one with or without its newline.                        *)
(***************************************************************************)
Loaded == op.name = "GetValue" /\ op.outcome = "ok" /\ last_write_time_ = file.mtime

\* a text ends with a newline, or is empty
Terminated(text) == text = << >> \/ text[Len(text)] = "\n"

\* the text with a newline after its last line
WithNewline(text) == IF Terminated(text) THEN text ELSE text \o << "\n" >>

\* C33 (every line is parsed): the table is the same whether or not the last
\* line of the input ends with a newline.
C33_LastLineParsed == Loaded => content_tbl_ = Parse(WithNewline(file.content))

\* the lines before the last newline are parsed: the table is that of the
\* text cut after its last newline
ParsedToLastNewline ==
  Loaded => content_tbl_ = Parse(JoinLines(GetLines(file.content)))

\* the lines of a text, each with its newline, the last one as it is
RECURSIVE InputLines(_)
InputLines(text) ==
  LET nl == FindFirstOf(text, {"\n"}, 1)
  IN  IF text = << >> THEN << >>
      ELSE IF nl = 0 THEN << text >>
      ELSE << Take(text, nl) >> \o InputLines(Drop(text, nl))

\* a line is a section header: `[`, a name, `]`
IsHeader(line) ==
  /\ Trim(line) # << >>
  /\ Trim(line)[1] = "["
  /\ FindFirstOf(Trim(line), {"]"}, 1) # 0

HeaderName(line) ==
  Trim(SubSeq(Trim(line), 2, FindFirstOf(Trim(line), {"]"}, 1) - 1))

\* a line that is not blank, not a comment and not a header
IsOther(line) ==
  /\ Trim(line) # << >>
  /\ Trim(line)[1] \notin { ";", "#", "[" }

\* a malformed line: a `[` line with no `]`, a line with no `=`, a line whose
\* `=` is at position 0, a key line that precedes any section header
Malformed(line, section) ==
  \/ Trim(line) # << >> /\ Trim(line)[1] = "[" /\ ~IsHeader(line)
  \/ IsOther(line) /\ FindFirstOf(Trim(line), {"="}, 1) <= 1
  \/ IsOther(line) /\ section = << >>

\* The key lines of a text as the format reads them, in order: for each its
\* combined key (section, ".", the trimmed text before the first `=`), its
\* key within the section, its value (the trimmed text after the first `=`)
\* and whether a malformed line precedes it.  `section` is the active
\* section, `bad` says that a malformed line has been passed.
RECURSIVE KeyLines(_, _, _)
KeyLines(lines, section, bad) ==
  IF lines = << >> THEN << >>
  ELSE LET line == Trim(Head(lines))
           eq   == FindFirstOf(line, {"="}, 1)
       IN  IF Malformed(Head(lines), section) THEN KeyLines(Tail(lines), section, TRUE)
           ELSE IF IsHeader(Head(lines))
           THEN KeyLines(Tail(lines), HeaderName(Head(lines)), bad)
           ELSE IF ~IsOther(Head(lines)) THEN KeyLines(Tail(lines), section, bad)
           ELSE << [key    |-> section \o << "." >> \o Trim(Take(line, eq - 1)),
                    subkey |-> Trim(Take(line, eq - 1)),
                    value  |-> Trim(Drop(line, eq)),
                    bad    |-> bad] >>
                \o KeyLines(Tail(lines), section, bad)

\* the key lines of the file
FileKeyLines == KeyLines(InputLines(file.content), << >>, FALSE)

\* the text without its malformed lines
RECURSIVE WithoutMalformed(_, _)
WithoutMalformed(lines, section) ==
  IF lines = << >> THEN << >>
  ELSE IF Malformed(Head(lines), section) THEN WithoutMalformed(Tail(lines), section)
  ELSE Head(lines)
       \o WithoutMalformed(Tail(lines),
                           IF IsHeader(Head(lines)) THEN HeaderName(Head(lines))
                           ELSE section)

\* C34 (malformed lines are recovered locally): the malformed lines add no
\* entry and every key line after one is still parsed, under the section
\* that was active before it: the table has an entry for exactly the key
\* lines of the input.
C34_MalformedRecovered ==
  (Loaded /\ \E i \in DOMAIN FileKeyLines : FileKeyLines[i].bad)
    => DOMAIN content_tbl_ = { FileKeyLines[i].key : i \in DOMAIN FileKeyLines }

\* the table is that of the text without its malformed lines
MalformedSkipped ==
  Loaded => content_tbl_ = Parse(WithoutMalformed(InputLines(file.content), << >>))

\* a key line before any header and a `[` without `]` are passed, and the key
\* line after them is read under the section of the header
MalformedPassed ==
  /\ Loaded
  /\ file.content = << "k", "=", "v", "\n", "[", "m", "]", "\n", "[", "a", "\n",
                       "k", "=", "w", "\n" >>
  /\ content_tbl_ = [key \in { KeyMK } |-> << "w" >>]

\* the last key line of a combined key
LastOf(key) ==
  CHOOSE i \in DOMAIN FileKeyLines :
    /\ FileKeyLines[i].key = key
    /\ \A j \in DOMAIN FileKeyLines : FileKeyLines[j].key = key => j <= i

\* the combined keys that occur more than once in the file
Duplicated ==
  { FileKeyLines[i].key : i \in { n \in DOMAIN FileKeyLines :
      \E o \in DOMAIN FileKeyLines : o # n /\ FileKeyLines[o].key = FileKeyLines[n].key } }

\* C35 (duplicates, last one wins): a combined key that occurs more than once
\* in the input, in one section block or under repeated headers of one name,
\* has in the table the value of its last occurrence.
C35_LastWins ==
  Loaded => \A key \in Duplicated :
              /\ key \in DOMAIN content_tbl_
              /\ content_tbl_[key] = FileKeyLines[LastOf(key)].value

\* the same of the texts that end with a newline
LastWinsTerminated ==
  (Loaded /\ Terminated(file.content))
    => \A key \in Duplicated :
         /\ key \in DOMAIN content_tbl_
         /\ content_tbl_[key] = FileKeyLines[LastOf(key)].value

\* a key under a repeated header: the second header adds to the section of the
\* first, and the later value of the key stands
RepeatedHeaderMerged ==
  /\ Loaded
  /\ file.content = << "[", "m", "]", "\n", "k", "=", "v", "\n",
                       "[", "m", "]", "\n", "k", "=", "w", "\n" >>
  /\ content_tbl_ = [key \in { KeyMK } |-> << "w" >>]

\* C36 (key-line decoding): a key line under the active section s has in the
\* table the combined key s + "." + trim(text before the first `=`) with the
\* value trim(text after the first `=`), later `=` and the dots of the key
\* included; the key without the section is not in the table.
C36_KeyLineDecoded ==
  Loaded => \A i \in DOMAIN FileKeyLines :
              /\ FileKeyLines[i].key \in DOMAIN content_tbl_
              /\ i = LastOf(FileKeyLines[i].key)
                   => content_tbl_[FileKeyLines[i].key] = FileKeyLines[i].value
              /\ FileKeyLines[i].subkey \notin DOMAIN content_tbl_

\* the same of the texts that end with a newline
KeyLineDecodedTerminated ==
  (Loaded /\ Terminated(file.content))
    => \A i \in DOMAIN FileKeyLines :
         /\ FileKeyLines[i].key \in DOMAIN content_tbl_
         /\ i = LastOf(FileKeyLines[i].key)
              => content_tbl_[FileKeyLines[i].key] = FileKeyLines[i].value
         /\ FileKeyLines[i].subkey \notin DOMAIN content_tbl_

\* `b.k = v=w` under [m] is read as m.b.k with the value v=w, and GetValue
\* returns the default for b.k
DottedKeyRead ==
  /\ Loaded
  /\ file.content = << "[", "m", "]", "\n",
                       "b", ".", "k", " ", "=", " ", "v", "=", "w", "\n" >>
  /\ content_tbl_ = [key \in { KeyMBK } |-> << "v", "=", "w" >>]
  /\ op.key = KeyBK
  /\ op.result = op.arg

(***************************************************************************)
(* The writer specification: WriteIni on the tables SetValue builds from   *)
(* keys of one, two and three segments and of two sections, a key with an  *)
(* empty first segment, and values that are empty or not.                  *)
(***************************************************************************)
KeyABK  == << "a", ".", "b", ".", "k" >>     \* section a, key b.k
KeyDotM == << ".", "m", ".", "k" >>          \* an empty segment, then m and k

LayoutKeys == { KeyA1, KeyABK, KeyMK, KeyK, KeyDotM }

\* SetValue<std::string> with "1" and with ""
LayoutValues == { Str(<< "1" >>), Str(<< >>) }

LayoutInit == Init /\ file = NoFile

LayoutNext == CodecSetValue(LayoutKeys, LayoutValues)

LayoutSpec == LayoutInit /\ [][LayoutNext]_vars

(***************************************************************************)
(* Properties of the writer.  Written says that the file holds what        *)
(* WriteIni made of content_tbl_.                                          *)
(***************************************************************************)
Written == op.name = "SetValue" /\ op.outcome = "ok"

\* the section of a combined key and its key within the section
SectionOf(key) == Split(key, << "." >>)[1]
SubkeyOf(key)  == JoinDot(Tail(Split(key, << "." >>)))

\* the entries of a table that have a section and a value
Entries(tbl) ==
  { key \in DOMAIN tbl : tbl[key] # << >> /\ Len(Split(key, << "." >>)) >= 2 }

HeaderLine(section) == << "[" >> \o section \o << "]" >>

IsHeaderLine(line) == line # << >> /\ line[1] = "["

\* the section whose header is the last one before line i
HeaderAbove(lines, i) ==
  LET hs == { j \in 1..(i - 1) : IsHeaderLine(lines[j]) }
      h  == CHOOSE j \in hs : \A o \in hs : o <= j
  IN  IF hs = {} THEN << >> ELSE SubSeq(lines[h], 2, Len(lines[h]) - 1)

\* the layout of a text for a table
Layout(tbl, text) ==
  LET lines == GetLines(text)
  IN  /\ \A key \in Entries(tbl) :
           /\ Cardinality({ i \in DOMAIN lines : lines[i] = HeaderLine(SectionOf(key)) }) = 1
           /\ \E i \in DOMAIN lines :
                /\ lines[i] = SubkeyOf(key) \o << "=" >> \o tbl[key]
                /\ HeaderAbove(lines, i) = SectionOf(key)
      /\ \A i \in DOMAIN lines :
           /\ lines[i] # << >> /\ ~IsHeaderLine(lines[i])
                => \E key \in Entries(tbl) :
                     /\ lines[i] = SubkeyOf(key) \o << "=" >> \o tbl[key]
                     /\ HeaderAbove(lines, i) = SectionOf(key)
           /\ IsHeaderLine(lines[i]) /\ i > 1 => lines[i - 1] = << >>
           /\ lines[i] = << >>
                => (i > 1 /\ i < Len(lines) /\ lines[i - 1] # << >>
                      /\ IsHeaderLine(lines[i + 1]))

\* C37 (serialized layout): the output of WriteIni for a table has the header
\* of each section once, every `key=value` line under the header of its own
\* section with the key's remaining segments joined by `.`, one blank line
\* between two sections and none before the first header.
C37_Layout == Written => Layout(content_tbl_, file.content)

\* the same of the tables whose keys all have a section and no empty segment
LayoutWellFormed ==
  (Written /\ \A key \in DOMAIN content_tbl_ : WellFormed(key))
    => Layout(content_tbl_, file.content)

\* the same of the tables that have no key without a section: the segments
\* may be empty
LayoutWithSections ==
  (Written /\ \A key \in DOMAIN content_tbl_ : Len(Split(key, << "." >>)) >= 2)
    => Layout(content_tbl_, file.content)

\* two sections, one with a key of two segments: the file WriteIni makes
TwoSectionsWritten ==
  /\ Written
  /\ DOMAIN content_tbl_ = { KeyA1, KeyABK, KeyMK }
  /\ file.content = << "[", "a", "]", "\n", "1", "=", "1", "\n",
                       "b", ".", "k", "=", "1", "\n", "\n",
                       "[", "m", "]", "\n", "k", "=", "1", "\n" >>

(***************************************************************************)
(* The helpers specification: Trim and Split called on the strings of at   *)
(* most MaxLen characters, Split with one delimiter or two.  `op` holds    *)
(* the string in `key` and, after the call, Split's pattern in `arg` and   *)
(* what the helper returns in `result`.                                    *)
(***************************************************************************)
MaxLen == 5

UtilChars == { " ", "\t", "a", "." }

\* the strings of at most n characters
RECURSIVE StringsOf(_)
StringsOf(n) ==
  IF n = 0 THEN { << >> }
  ELSE LET shorter == StringsOf(n - 1)
       IN  shorter \cup { s \o << c >> : s \in shorter, c \in UtilChars }

\* the patterns Split is called with: ".", " " and the two together
UtilPatterns == { << "." >>, << " " >>, << ".", " " >> }

\* a std::vector<std::string> as a value
Vec(v) == [t |-> "vector", s |-> v, n |-> Len(v), b |-> FALSE]

\* the string the helpers are called with is drawn first
UtilInit ==
  /\ content_tbl_ = EmptyTbl
  /\ last_write_time_ = 0
  /\ now = 1
  /\ file = NoFile
  /\ op \in { [name |-> "input", key |-> s, arg |-> None, result |-> None,
               outcome |-> "ok", reloaded |-> FALSE, fail |-> "none"] :
               s \in StringsOf(MaxLen) }
  /\ ini_rw_mutex_ = "free"
  /\ thr = NoThreads
  /\ shadow = [tbl |-> EmptyTbl, lwt |-> 0, file |-> NoFile]
  /\ Constructed

\* Trim(s)
CallTrim ==
  /\ op.name = "input"
  /\ op' = [op EXCEPT !.name = "Trim", !.result = Str(Trim(op.key))]
  /\ UNCHANGED << content_tbl_, last_write_time_, file, now, conc >>

\* Split(str, pattern)
CallSplit(P) ==
  /\ op.name = "input"
  /\ \E pattern \in P :
       op' = [op EXCEPT !.name = "Split", !.arg = Str(pattern),
                        !.result = Vec(Split(op.key, pattern))]
  /\ UNCHANGED << content_tbl_, last_write_time_, file, now, conc >>

UtilNext ==
  \/ CallTrim
  \/ CallSplit(UtilPatterns)

UtilSpec == UtilInit /\ [][UtilNext]_vars

(***************************************************************************)
(* Properties of the helpers.                                              *)
(***************************************************************************)
\* the characters of a pattern
Delimiters(pattern) == { pattern[i] : i \in 1..Len(pattern) }

\* where the maximal substrings of str without a delimiter start
RunStarts(str, D) ==
  { i \in 1..Len(str) : str[i] \notin D /\ (i = 1 \/ str[i - 1] \in D) }

\* where the one that starts at i ends
RunEnd(str, D, i) ==
  CHOOSE j \in i..Len(str) :
    /\ \A k \in i..j : str[k] \notin D
    /\ j = Len(str) \/ str[j + 1] \in D

\* C38 (Split): the result holds, in order, exactly the maximal non-empty
\* substrings of str without a delimiter character: no empty string, nothing
\* for an empty str, str itself when it has no delimiter, the pieces untrimmed.
C38_SplitPieces ==
  op.name = "Split"
    => LET str    == op.key
           D      == Delimiters(op.arg.s)
           result == op.result.s
           starts == RunStarts(str, D)
       IN  /\ Len(result) = Cardinality(starts)
           /\ \A i \in starts :
                result[Cardinality({ j \in starts : j <= i })]
                  = SubSeq(str, i, RunEnd(str, D, i))
           /\ \A n \in DOMAIN result : result[n] # << >>
           /\ str = << >> => result = << >>
           /\ (str # << >> /\ \A i \in DOMAIN str : str[i] \notin D)
                => result = << str >>

\* ".a..a" split at ".": a leading and a repeated delimiter, two pieces
C38_Witness ==
  /\ op.name = "Split"
  /\ op.key = << ".", "a", ".", ".", "a" >>
  /\ op.arg.s = << "." >>
  /\ op.result.s = << << "a" >>, << "a" >> >>

\* "a . a" split at ".": the pieces keep their blanks
SplitUntrimmed ==
  /\ op.name = "Split"
  /\ op.key = << "a", " ", ".", " ", "a" >>
  /\ op.arg.s = << "." >>
  /\ op.result.s = << << "a", " " >>, << " ", "a" >> >>

\* C39 (Trim): the result is s without the white space at its two ends, the
\* empty string when s is empty or all white space: the inside of s is kept,
\* the result has no white space at either end, and Trim leaves it as it is.
C39_TrimEnds ==
  op.name = "Trim"
    => LET s == op.key
           r == op.result.s
       IN  /\ \E i, j \in 0..Len(s) :
                /\ i + j <= Len(s)
                /\ r = SubSeq(s, i + 1, Len(s) - j)
                /\ \A k \in 1..i : IsSpace(s[k])
                /\ \A k \in (Len(s) - j + 1)..Len(s) : IsSpace(s[k])
           /\ r # << >> => ~IsSpace(r[1]) /\ ~IsSpace(r[Len(r)])
           /\ Trim(r) = r

\* " a<tab>a " is trimmed to "a<tab>a"
C39_Witness ==
  /\ op.name = "Trim"
  /\ op.key = << " ", "a", "\t", "a", " " >>
  /\ op.result.s = << "a", "\t", "a" >>

=============================================================================
